---------------------------- MODULE Spec2Model ----------------------------
(***************************************************************************)
(* Neuropedia Clinical Directory: the desktop client                       *)
(* (Neuropedia_Clinical_Directory.py, class NeuropediaApp) and the web     *)
(* variant (app.py, main), as state machines over one shared spreadsheet.  *)
(*                                                                         *)
(* Text is modelled as a sequence of one-character strings, so that        *)
(* strip(), lower(), the substring test and the regular-expression search  *)
(* of the web variant are computed and not assumed.  Header names are      *)
(* compared for equality only and are plain strings.                       *)
(***************************************************************************)
EXTENDS Integers, Sequences, FiniteSets, Bags, TLC

(***************************************************************************)
(* Bounds of the model.                                                    *)
(***************************************************************************)
\* the largest number of data rows of a record list / of the sheet
MaxRows == 2
\* the largest number of photo fetches in flight at once
MaxInflight == 2
\* the largest number of successful updates counted by version_rev
MaxRev == 1
\* the largest number of filter widgets set at once in the desktop client
MaxFilters == 1
\* the number of user events the desktop client is followed for
MaxSteps == 3
\* the largest number of handlers stopped in processEvents at once
MaxDepth == 1

(***************************************************************************)
(* Python string operations.                                               *)
(***************************************************************************)
UPPER == <<"A","B","C","D","E","F","G","H","I","J","K","L","M","N","O","P","Q","R","S","T","U","V","W","X","Y","Z">>
LOWER == <<"a","b","c","d","e","f","g","h","i","j","k","l","m","n","o","p","q","r","s","t","u","v","w","x","y","z">>

\* the characters str.strip() removes
WHITESPACE == {" ", "\t", "\n", "\r"}

\* the lower-case letter of each upper-case letter
LOWER_OF == [c \in {UPPER[i] : i \in 1..Len(UPPER)} |-> LOWER[CHOOSE i \in 1..Len(UPPER) : UPPER[i] = c]]

lower_char(c) == IF c \in DOMAIN LOWER_OF THEN LOWER_OF[c] ELSE c

\* str.lower()
lower(s) == [i \in 1..Len(s) |-> lower_char(s[i])]

\* str.strip()
strip(s) ==
    LET keep == {i \in 1..Len(s) : s[i] \notin WHITESPACE}
    IN  IF keep = {} THEN <<>>
        ELSE LET first == CHOOSE i \in keep : \A j \in keep : i <= j
                 last  == CHOOSE i \in keep : \A j \in keep : j <= i
             IN  SubSeq(s, first, last)

\* sub in s
contains(sub, s) ==
    \E i \in 0..(Len(s) - Len(sub)) : SubSeq(s, i + 1, i + Len(sub)) = sub

\* s.startswith(prefix)
startswith(s, prefix) ==
    Len(prefix) <= Len(s) /\ SubSeq(s, 1, Len(prefix)) = prefix

\* the characters from "A" on in code-point order, as far as the model needs
ASCII_FROM_A == UPPER \o <<"[">>

\* chr(ord('A') + k)
chr_from_A(k) == ASCII_FROM_A[k + 1]

index_or_first(hdrs, name) ==
    IF \E i \in 1..Len(hdrs) : hdrs[i] = name
    THEN CHOOSE i \in 1..Len(hdrs) : hdrs[i] = name /\ \A j \in 1..(i - 1) : hdrs[j] # name
    ELSE 1

\* list.index(name): the 1-based position of the first match, 0 when list.index
\* raises ValueError
index(hdrs, name) ==
    IF \E i \in 1..Len(hdrs) : hdrs[i] = name
    THEN CHOOSE i \in 1..Len(hdrs) : hdrs[i] = name /\ \A j \in 1..(i - 1) : hdrs[j] # name
    ELSE 0

(***************************************************************************)
(* Text constants.                                                         *)
(***************************************************************************)
EMPTY == <<>>
NPD == <<"N","P","D">>
NPS == <<"N","P","S">>
CDC == <<"C","D","C">>
ALL == <<"A","l","l">>
HTTP == <<"h","t","t","p",":","/","/">>
HTTPS == <<"h","t","t","p","s",":","/","/">>

\* the three location check boxes
LOCATIONS == <<NPD, NPS, CDC>>


(***************************************************************************)
(* The header names the code refers to, and the records of the model.      *)
(***************************************************************************)
H_NAME == "Clinicians Name"
H_LOCATION == "Location"
H_ROLE == "Role"
H_AGE == "Age Group Seen"
H_DAYS == "Days Available"
H_SPECIALTY == "Specialty Areas"
H_LANGUAGES == "Languages Spoken"
H_PHOTO == "Photo"

FIELDS == {H_NAME, H_LOCATION, H_ROLE, H_AGE, H_DAYS, H_SPECIALTY, H_LANGUAGES, H_PHOTO}

\* one staff member, as a mapping from field name to text
Staff(name, loc, role, age, days, spec, lang, photo) ==
    (H_NAME :> name) @@ (H_LOCATION :> loc) @@ (H_ROLE :> role) @@ (H_AGE :> age)
    @@ (H_DAYS :> days) @@ (H_SPECIALTY :> spec) @@ (H_LANGUAGES :> lang) @@ (H_PHOTO :> photo)

URL_A == HTTP \o <<"a">>
URL_B == HTTPS \o <<"b">>

ANN == Staff(<<"A","n","n">>, <<"N","P","D">>, <<"S","L","P">>, <<"A","d","u","l","t">>, <<"M","o","n">>, <<"a","s","d">>, <<"E","n">>, URL_A)
BEN == Staff(<<"B","e","n">>, <<"C","D","C">>, <<"O","T">>, <<"C","h","i","l","d">>, <<"T","u","e">>, <<"a","d","h","d">>, <<"A","r">>, URL_B)
SMITH == Staff(<<"D","r","."," ","S","m","i","t","h">>, <<"N","P","D",","," ","N","P","S">>, <<"s","l","p">>, <<"a","d","u","l","t">>, <<"M","o","n">>, <<"A","S","D">>, <<"e","n">>, EMPTY)
ANNA == Staff(<<"a","n","n","a">>, <<"n","p","d">>, <<"O","t">>, <<"A","d","u","l","t","s">>, <<"t","u","e">>, <<"A","d","h","d">>, <<"a","r">>, URL_A)

\* the staff the record lists of the model are drawn from
STAFF == {ANN, BEN, SMITH, ANNA}

\* header layouts: the usual one, one with the columns in another order, and
\* one that lacks the "Languages Spoken" column
HEADERS_STD == <<H_NAME, H_LOCATION, H_ROLE, H_AGE, H_DAYS, H_SPECIALTY, H_LANGUAGES, H_PHOTO>>
HEADERS_ALT == <<H_PHOTO, H_ROLE, H_NAME, H_LANGUAGES, H_AGE, H_LOCATION, H_SPECIALTY, H_DAYS>>
HEADERS_NOLANG == <<H_NAME, H_LOCATION, H_ROLE, H_AGE, H_DAYS, H_SPECIALTY, H_PHOTO>>
\* the usual layout with the location column spelled "location"
HEADERS_CASE == <<H_NAME, "location", H_ROLE, H_AGE, H_DAYS, H_SPECIALTY, H_LANGUAGES, H_PHOTO>>
HeaderLists == {HEADERS_STD, HEADERS_ALT, HEADERS_NOLANG, HEADERS_CASE}

\* a layout of 27 columns: the usual ones and further columns the code does
\* not refer to by name
HEADERS_WIDE ==
    HEADERS_STD \o <<"Note 1", "Note 2", "Note 3", "Note 4", "Note 5", "Note 6", "Note 7", "Note 8", "Note 9", "Note 10", "Note 11", "Note 12", "Note 13", "Note 14", "Note 15", "Note 16", "Note 17", "Note 18", "Note 19">>

\* the sheet row of a staff member under a header layout
Row(staff, hdrs) ==
    [i \in 1..Len(hdrs) |-> IF hdrs[i] \in DOMAIN staff THEN staff[hdrs[i]] ELSE EMPTY]

\* every sequence over S of length at most n
SeqUpTo(S, n) == UNION {[1..k -> S] : k \in 0..n}

\* the record lists of the model under a header layout
RecordLists(hdrs) == {[i \in 1..Len(l) |-> Row(l[i], hdrs)] : l \in SeqUpTo(STAFF, MaxRows)}

(***************************************************************************)
(* The values the filter widgets take in the model.                        *)
(***************************************************************************)
LocationSets == {{}, {NPD}, {NPS}, {NPD, CDC}}
NameQueries == {EMPTY, <<"a","n">>, <<" "," ","D","r"," "," ">>, <<" "," "," ">>}
RoleQueries == {EMPTY, <<"s","l","p"," ">>}
DaysQueries == {EMPTY, <<"m","o","n">>}
SpecialtyQueries == {EMPTY, <<"a","s","d">>}
LanguagesQueries == {EMPTY, <<"E","N">>}


(***************************************************************************)
(* The desktop filter: NeuropediaApp.filter_data.                          *)
(* A criteria set is a record [loc, name, age, role, days, specialty,      *)
(* languages] of the values read from the filter widgets.                  *)
(***************************************************************************)

\* location_filter without its "if selected_locations:" guard
location_filter_unguarded(data, hdrs, selected_locations) ==
    LET loc_idx == index(hdrs, H_LOCATION)
        keep(row) == \E loc \in selected_locations : contains(loc, row[loc_idx])
    IN  SelectSeq(data, keep)

\* location_filter comparing without regard to letter case
location_filter_nocase(data, hdrs, selected_locations) ==
    IF selected_locations # {}
    THEN LET loc_idx == index(hdrs, H_LOCATION)
             keep(row) == \E loc \in selected_locations : contains(lower(loc), lower(row[loc_idx]))
         IN  SelectSeq(data, keep)
    ELSE data

\* the "if selected_locations:" stage
location_filter(data, hdrs, selected_locations) ==
    IF selected_locations # {}
    THEN LET loc_idx == index(hdrs, H_LOCATION)
             keep(row) == \E loc \in selected_locations : contains(loc, row[loc_idx])
         IN  SelectSeq(data, keep)
    ELSE data

\* text_filter building its result back to front
text_filter_reversed(data, hdrs, header, text) ==
    LET query == lower(strip(text))
    IN  IF query # EMPTY
        THEN LET idx == index(hdrs, header)
                 keep(row) == contains(query, lower(row[idx]))
                 kept == SelectSeq(data, keep)
             IN  [i \in 1..Len(kept) |-> kept[Len(kept) + 1 - i]]
        ELSE data

\* text_filter scanning from the second row on, as if the first were the header
text_filter_skip_first(data, hdrs, header, text) ==
    LET query == lower(strip(text))
    IN  IF query # EMPTY
        THEN LET idx == index(hdrs, header)
                 keep(row) == contains(query, lower(row[idx]))
             IN  IF data = <<>> THEN data ELSE SelectSeq(Tail(data), keep)
        ELSE data

\* a free-text stage: query = edit.text().strip().lower(); "if query:"
text_filter(data, hdrs, header, text) ==
    LET query == lower(strip(text))
    IN  IF query # EMPTY
        THEN LET idx == index(hdrs, header)
                 keep(row) == contains(query, lower(row[idx]))
             IN  SelectSeq(data, keep)
        ELSE data

\* age_filter comparing without regard to letter case
age_filter_nocase(data, hdrs, value) ==
    IF value # ALL /\ value # EMPTY
    THEN LET header_idx == index(hdrs, H_AGE)
             keep(row) == lower(row[header_idx]) = lower(value)
         IN  SelectSeq(data, keep)
    ELSE data

\* the "for header, value in filters.items()" stage of the age combo box
age_filter(data, hdrs, value) ==
    IF value # ALL /\ value # EMPTY
    THEN LET header_idx == index(hdrs, H_AGE)
             keep(row) == row[header_idx] = value
         IN  SelectSeq(data, keep)
    ELSE data

\* the headers filter_data looks up with headers.index for a criteria set
headers_used(crit) ==
    {h \in FIELDS :
        \/ h = H_LOCATION /\ crit.loc # {}
        \/ h = H_NAME /\ lower(strip(crit.name)) # EMPTY
        \/ h = H_AGE /\ crit.age # ALL /\ crit.age # EMPTY
        \/ h = H_ROLE /\ lower(strip(crit.role)) # EMPTY
        \/ h = H_DAYS /\ lower(strip(crit.days)) # EMPTY
        \/ h = H_SPECIALTY /\ lower(strip(crit.specialty)) # EMPTY
        \/ h = H_LANGUAGES /\ lower(strip(crit.languages)) # EMPTY}

\* filter_data raises ValueError: headers.index of a header that is absent
filter_raises(hdrs, crit) ==
    \E h \in headers_used(crit) : index(hdrs, h) = 0

\* filter_rows whose role stage starts again from the full record list
filter_rows_restart(data, hdrs, crit) ==
    LET d4 == text_filter(data, hdrs, H_ROLE, crit.role)
        d5 == text_filter(d4, hdrs, H_DAYS, crit.days)
        d6 == text_filter(d5, hdrs, H_SPECIALTY, crit.specialty)
    IN  text_filter(d6, hdrs, H_LANGUAGES, crit.languages)

\* the list filter_data hands to display_data
filter_rows(data, hdrs, crit) ==
    LET d1 == location_filter(data, hdrs, crit.loc)
        d2 == text_filter(d1, hdrs, H_NAME, crit.name)
        d3 == age_filter(d2, hdrs, crit.age)
        d4 == text_filter(d3, hdrs, H_ROLE, crit.role)
        d5 == text_filter(d4, hdrs, H_DAYS, crit.days)
        d6 == text_filter(d5, hdrs, H_SPECIALTY, crit.specialty)
    IN  text_filter(d6, hdrs, H_LANGUAGES, crit.languages)

\* populate_dropdowns: the values offered by the age combo box besides "All"
age_values(hdrs, data) ==
    IF index(hdrs, H_AGE) = 0 THEN {}
    ELSE {data[i][index(hdrs, H_AGE)] : i \in 1..Len(data)} \ {EMPTY}


(***************************************************************************)
(* The web variant's filter: app.py, main.                                 *)
(***************************************************************************)

\* the positions that delimit the alternatives of a pattern: before it, after
\* it, and every "|" in it
bars(pat) == {0, Len(pat) + 1} \cup {k \in 1..Len(pat) : pat[k] = "|"}

\* the alternatives of a regular expression, split at "|"
alternatives(pat) ==
    {SubSeq(pat, a + 1, b - 1) : <<a, b>> \in
        {<<a, b>> \in bars(pat) \X bars(pat) :
            a < b /\ \A k \in bars(pat) : ~(a < k /\ k < b)}}

\* one alternative matches s at offset i, ignoring case; "." matches any
\* character but a newline
matches_at(alt, s, i) ==
    \A j \in 1..Len(alt) :
        \/ alt[j] = "." /\ s[i + j] # "\n"
        \/ alt[j] # "." /\ lower_char(alt[j]) = lower_char(s[i + j])

\* Series.str.contains(pat, case=False, na=False) on one value: re.search with
\* IGNORECASE, for patterns made of literals, "." and "|"
str_contains(s, pat) ==
    \E alt \in alternatives(pat) :
        \E i \in 0..(Len(s) - Len(alt)) : matches_at(alt, s, i)

\* '|'.join(selected_locs)
RECURSIVE join_bar(_)
join_bar(parts) ==
    IF Len(parts) = 0 THEN EMPTY
    ELSE IF Len(parts) = 1 THEN parts[1]
    ELSE parts[1] \o <<"|">> \o join_bar(Tail(parts))

\* the selected locations as a list, in the order of the options
selected_locs(chosen) ==
    LET pick(loc) == loc \in chosen
    IN  SelectSeq(LOCATIONS, pick)

\* "if selected_locs:" of the web variant
web_location_filter(df, cols, chosen) ==
    IF chosen # {}
    THEN LET pattern == join_bar(selected_locs(chosen))
             keep(row) == str_contains(row[index(cols, H_LOCATION)], pattern)
         IN  SelectSeq(df, keep)
    ELSE df

\* "if search_x:" of the web variant: the query is used as typed
web_text_filter(df, cols, column, search) ==
    IF search # EMPTY
    THEN LET keep(row) == str_contains(row[index(cols, column)], search)
         IN  SelectSeq(df, keep)
    ELSE df

\* "if search_age and search_age != 'All':"
web_age_filter(df, cols, search_age) ==
    IF search_age # EMPTY /\ search_age # ALL
    THEN LET keep(row) == row[index(cols, H_AGE)] = search_age
         IN  SelectSeq(df, keep)
    ELSE df

\* filters_applied
filters_applied(crit) ==
    \/ crit.loc # {}
    \/ strip(crit.role) # EMPTY
    \/ strip(crit.name) # EMPTY
    \/ crit.age # ALL
    \/ strip(crit.days) # EMPTY
    \/ strip(crit.specialty) # EMPTY
    \/ strip(crit.languages) # EMPTY

\* the columns the web filter subscripts the data frame with
web_columns_used(crit) ==
    {h \in FIELDS :
        \/ h = H_LOCATION /\ crit.loc # {}
        \/ h = H_ROLE /\ crit.role # EMPTY
        \/ h = H_NAME /\ crit.name # EMPTY
        \/ h = H_AGE /\ crit.age # EMPTY /\ crit.age # ALL
        \/ h = H_DAYS /\ crit.days # EMPTY
        \/ h = H_SPECIALTY /\ crit.specialty # EMPTY
        \/ h = H_LANGUAGES /\ crit.languages # EMPTY}

\* a subscript raises KeyError
web_raises(cols, crit) ==
    \E h \in web_columns_used(crit) : index(cols, h) = 0

\* filtered_df
web_filter_rows(df, cols, crit) ==
    LET d1 == web_location_filter(df, cols, crit.loc)
        d2 == web_text_filter(d1, cols, H_ROLE, crit.role)
        d3 == web_text_filter(d2, cols, H_NAME, crit.name)
        d4 == web_age_filter(d3, cols, crit.age)
        d5 == web_text_filter(d4, cols, H_DAYS, crit.days)
        d6 == web_text_filter(d5, cols, H_SPECIALTY, crit.specialty)
    IN  web_text_filter(d6, cols, H_LANGUAGES, crit.languages)

\* age_options of the web variant
web_age_options(cols, df) ==
    IF index(cols, H_AGE) = 0 THEN {ALL}
    ELSE {ALL} \cup {df[i][index(cols, H_AGE)] : i \in 1..Len(df)}

\* sensitive_cols
SENSITIVE_COLS == {"Photo", "Contact Number", "Contact (Extn)"}

display_columns_but_photo(cols) ==
    LET shown(c) == c # "Photo"
    IN  SelectSeq(cols, shown)

\* the columns of display_df: drop(columns=sensitive_cols, errors='ignore')
display_columns(cols) ==
    LET shown(c) == c \notin SENSITIVE_COLS
    IN  SelectSeq(cols, shown)

\* the row of display_df for a row of filtered_df
display_row(cols, row) ==
    LET shown(j) == \E k \in DOMAIN display_columns(cols) : display_columns(cols)[k] = cols[j]
        kept == SelectSeq([j \in DOMAIN cols |-> j], shown)
    IN  [k \in DOMAIN kept |-> row[kept[k]]]

\* what st.dataframe(display_df) shows: the columns and the rows
display_df(cols, rows) ==
    [columns |-> display_columns(cols), rows |-> [i \in DOMAIN rows |-> display_row(cols, rows[i])]]

\* nothing is handed to st.dataframe
NO_TABLE == [columns |-> <<>>, rows |-> <<>>]

\* what one run of main() shows for a data frame and the widget values: the
\* message or section reached, filtered_df, and the table of st.dataframe
web_main(cols, df, crit) ==
    IF df = <<>> THEN [kind |-> "No data found.", rows |-> <<>>, table |-> NO_TABLE]
    ELSE IF ~filters_applied(crit) THEN [kind |-> "info", rows |-> <<>>, table |-> NO_TABLE]
    ELSE IF web_raises(cols, crit) THEN [kind |-> "KeyError", rows |-> <<>>, table |-> NO_TABLE]
    ELSE IF web_filter_rows(df, cols, crit) = <<>>
         THEN [kind |-> "No matching staff found.", rows |-> <<>>, table |-> NO_TABLE]
    ELSE [kind |-> "Staff List", rows |-> web_filter_rows(df, cols, crit),
          table |-> display_df(cols, web_filter_rows(df, cols, crit))]


(***************************************************************************)
(* State.                                                                  *)
(***************************************************************************)
VARIABLES
    sheet,                \* the spreadsheet: the header row, then the data rows
    headers,              \* NeuropediaApp.headers
    original_data,        \* NeuropediaApp.original_data
    table,                \* the rows of clinician_table, as cell texts
    current_selected_row, \* -1, or the 0-based row selected in clinician_table
    update_enabled,       \* update_button.isEnabled()
    location_checked,     \* the texts of the checked location check boxes
    name_search,          \* name_search_edit.text()
    role_search,          \* role_search_edit.text()
    age_items,            \* the items of age_combo besides "All"
    age_current,          \* age_combo.currentText()
    days_search,          \* days_search_edit.text()
    specialty_search,     \* specialty_search_edit.text()
    languages_search,     \* languages_search_edit.text()
    editable_fields,      \* header -> text of its line edit in the detail panel
    specialty_browser,    \* specialty_browser.toPlainText()
    photo_label,          \* photo_label: its text, and the URL whose image it shows
    photo_requests,       \* the keys of NeuropediaApp.photo_requests
    inflight,             \* the requests handed to nam.get and not yet finished
    version_rev,          \* NeuropediaApp.version_rev
    settings_file,        \* the version_rev persisted in settings.json, 0 if none
    api_calls,            \* the calls the last handler made on SHEET
    dialogs,              \* the message boxes the last handler showed
    alive,                \* FALSE once an exception escaped a slot
    pc,                   \* "app" in the desktop client; else the step of a filter run
    steps,                \* the number of events the desktop client has handled
    suspended,            \* the handlers stopped in QApplication.processEvents(), innermost last
    web_view,             \* what the last run of the web variant's main() showed
    settings_doc,         \* settings.json as start-up finds it
    clinician_font,       \* NeuropediaApp.clinician_font
    clinician_font_size,  \* NeuropediaApp.clinician_font_size
    current_theme,        \* NeuropediaApp.current_theme
    stylesheet,           \* the font, the size and the theme colours of the style sheet in effect
    password_entered      \* what the last "Password Required" prompt returned: the text, and whether OK was pressed

store == <<headers, original_data>>
widgets == <<location_checked, name_search, role_search, age_items, age_current, days_search, specialty_search, languages_search>>
view == <<table, current_selected_row, update_enabled, editable_fields, specialty_browser, photo_label>>
network == <<photo_requests, inflight>>
appearance == <<settings_doc, clinician_font, clinician_font_size, current_theme, stylesheet>>
settings == <<version_rev, settings_file, appearance, password_entered>>
vars == <<sheet, store, widgets, view, network, settings, api_calls, dialogs, alive, pc, steps, suspended, web_view>>

\* the criteria set filter_data reads from the widgets
Criteria ==
    [loc |-> location_checked, name |-> name_search, age |-> age_current,
     role |-> role_search, days |-> days_search, specialty |-> specialty_search,
     languages |-> languages_search]

NO_PHOTO == [text |-> "No Photo", pixmap |-> EMPTY]
LOADING == [text |-> "Loading...", pixmap |-> EMPTY]
IMAGE_ERROR == [text |-> "Image Error", pixmap |-> EMPTY]
NO_VIEW == [kind |-> "none", rows |-> <<>>, table |-> NO_TABLE]
\* no password prompt was shown yet
NO_ENTRY == [ok |-> FALSE, text |-> ""]

\* create_editable_fields: the headers that get a line edit
editable_headers(hdrs) ==
    {hdrs[i] : i \in 1..Len(hdrs)} \ {H_PHOTO, H_SPECIALTY, H_LANGUAGES}

display_data_within(data, fields) ==
    /\ table' = SelectSeq(data, LAMBDA row : \E i \in DOMAIN table : table[i] = row)
    /\ current_selected_row' = -1
    /\ update_enabled' = FALSE
    /\ editable_fields' = [h \in fields |-> EMPTY]
    /\ specialty_browser' = EMPTY
    /\ photo_label' = NO_PHOTO

\* display_data(data), with clear_editable_fields over the given line edits
display_data(data, fields) ==
    /\ table' = data
    /\ current_selected_row' = -1
    /\ update_enabled' = FALSE
    /\ editable_fields' = [h \in fields |-> EMPTY]
    /\ specialty_browser' = EMPTY
    /\ photo_label' = NO_PHOTO

filter_data_slot_on_table(crit) ==
    /\ api_calls' = <<>>
    /\ dialogs' = <<>>
    /\ IF filter_raises(headers, crit)
       THEN /\ alive' = FALSE
            /\ UNCHANGED view
       ELSE /\ alive' = TRUE
            /\ display_data(filter_rows(table, headers, crit), DOMAIN editable_fields)
    /\ UNCHANGED <<sheet, store, network, settings, web_view>>

\* the slot filter_data, run with the criteria the widgets hold when it is called
filter_data_slot(crit) ==
    /\ api_calls' = <<>>
    /\ dialogs' = <<>>
    /\ IF filter_raises(headers, crit)
       THEN /\ alive' = FALSE
            /\ UNCHANGED view
       ELSE /\ alive' = TRUE
            /\ display_data(filter_rows(original_data, headers, crit), DOMAIN editable_fields)
    /\ UNCHANGED <<sheet, store, network, settings, web_view>>

(***************************************************************************)
(* settings.json: JSON values, the theme table, and the start-up defaults. *)
(***************************************************************************)

\* a JSON string, a JSON integer, and the mark of a key the object lacks
STR(text) == [t |-> "str", v |-> text]
INT(n) == [t |-> "int", v |-> n]
ABSENT == [t |-> "absent", v |-> ""]

\* the keys of THEMES
THEME_NAMES == {"Green", "Orange", "Yellow", "Dark"}

\* the defaults of __init__ and of load_settings
DEFAULT_FONT == STR("Roboto")
DEFAULT_SIZE == INT(12)
DEFAULT_THEME == STR("Green")
DEFAULT_REV == INT(14)

\* a settings file of the given kind; the four members matter for an object only
document(kind, font, fontSize, theme, rev) ==
    [kind |-> kind, font |-> font, fontSize |-> fontSize, theme |-> theme, version_rev |-> rev]

\* no settings.json
NO_FILE == document("absent", ABSENT, ABSENT, ABSENT, ABSENT)

\* get_stylesheet: the colours are those of the theme, of Green for an unknown theme
get_stylesheet(font_name, font_size, theme) ==
    [font |-> font_name, size |-> font_size,
     colors |-> IF theme.t = "str" /\ theme.v \in THEME_NAMES THEN theme.v ELSE "Green"]

\* the client runs with the defaults and has found no settings file
default_appearance ==
    /\ settings_doc = NO_FILE
    /\ clinician_font = DEFAULT_FONT
    /\ clinician_font_size = DEFAULT_SIZE
    /\ current_theme = DEFAULT_THEME
    /\ stylesheet = get_stylesheet(DEFAULT_FONT, DEFAULT_SIZE, DEFAULT_THEME)


(***************************************************************************)
(* The filter as a function of its inputs: the record list, the header     *)
(* list and the criteria are drawn from the sets of the model, and the     *)
(* desktop slot or one run of the web variant is applied to them.          *)
(***************************************************************************)
InitFilter ==
    /\ headers \in HeaderLists
    /\ original_data \in RecordLists(headers)
    /\ sheet = <<headers>> \o original_data
    /\ table = original_data
    /\ current_selected_row = -1
    /\ update_enabled = FALSE
    /\ location_checked \in LocationSets
    /\ name_search \in NameQueries
    /\ role_search \in RoleQueries
    /\ age_items = age_values(headers, original_data)
    /\ age_current \in {ALL, EMPTY} \cup age_items
    /\ days_search \in DaysQueries
    /\ specialty_search \in SpecialtyQueries
    /\ languages_search \in LanguagesQueries
    /\ editable_fields = [h \in editable_headers(headers) |-> EMPTY]
    /\ specialty_browser = EMPTY
    /\ photo_label = NO_PHOTO
    /\ photo_requests = {}
    /\ inflight = EmptyBag
    /\ version_rev = 14
    /\ settings_file = 0
    /\ api_calls = <<>>
    /\ dialogs = <<>>
    /\ alive = TRUE
    /\ pc = "start"
    /\ steps = 0
    /\ suspended = <<>>
    /\ web_view = NO_VIEW
    /\ password_entered = NO_ENTRY
    /\ default_appearance

\* the desktop slot on the drawn inputs
filter_data ==
    /\ pc = "start"
    /\ pc' = "filter_data"
    /\ UNCHANGED <<steps, suspended>>
    /\ filter_data_slot(Criteria)
    /\ UNCHANGED widgets

\* one run of the web variant on the drawn inputs; its select box offers only
\* the values of age_options
web_run ==
    /\ pc = "start"
    /\ age_current \in web_age_options(sheet[1], Tail(sheet))
    /\ web_view' = web_main(sheet[1], Tail(sheet), Criteria)
    /\ pc' = "main"
    /\ UNCHANGED <<steps, suspended>>
    /\ UNCHANGED <<sheet, store, widgets, view, network, settings, api_calls, dialogs, alive>>

NextFilter == filter_data \/ web_run

SpecFilter == InitFilter /\ [][NextFilter]_vars


(***************************************************************************)
(* The desktop client.                                                     *)
(***************************************************************************)

\* one more event is handled; the model follows MaxSteps events
handled == steps < MaxSteps /\ steps' = steps + 1

\* a second record of the name "Ben", with another role
BEN_TWIN == [BEN EXCEPT ![H_ROLE] = <<"S","L","P">>]

\* the rosters the sheet holds when the client starts
ROSTERS == {<<>>, <<ANN, BEN>>, <<SMITH>>, <<BEN, BEN_TWIN>>}

\* the sheets of the model at start-up: an entirely empty sheet, or a header
\* row followed by a roster
InitialSheets ==
    {<<>>} \cup
    {<<HEADERS_STD>> \o [i \in 1..Len(l) |-> Row(l[i], HEADERS_STD)] : l \in ROSTERS} \cup
    {<<HEADERS_NOLANG, Row(SMITH, HEADERS_NOLANG)>>, <<HEADERS_WIDE, Row(BEN, HEADERS_WIDE)>>}

\* SHEET.get_all_values() returned all_data, or raised
GET_OK == [op |-> "get_all_values", ok |-> TRUE]
GET_FAILED == [op |-> "get_all_values", ok |-> FALSE]

\* populate_dropdowns clears and refills age_combo when the sheet has the
\* "Age Group Seen" column; clear() and addItem("All") each change the current
\* index, and each change runs the slot filter_data on the new store
load_raises(hdrs, crit) ==
    /\ index(hdrs, H_AGE) # 0
    /\ \/ filter_raises(hdrs, [crit EXCEPT !.age = EMPTY])
       \/ filter_raises(hdrs, [crit EXCEPT !.age = ALL])

\* populate_dropdowns reads row[header_idx] of every row for the "Age Group
\* Seen" column: IndexError for a row that ends before that column
populate_raises(hdrs, rows) ==
    /\ index(hdrs, H_AGE) # 0
    /\ \E i \in DOMAIN rows : Len(rows[i]) < index(hdrs, H_AGE)

load_data_from_merging(all_data, outcome, calls, shown) ==
    IF outcome = "error"
    THEN /\ api_calls' = Append(calls, GET_FAILED)
         /\ dialogs' = Append(shown, "Data Load Error")
         /\ alive' = TRUE
         /\ UNCHANGED <<store, age_items, age_current, view>>
    ELSE IF all_data = <<>>
    THEN /\ api_calls' = Append(calls, GET_OK)
         /\ dialogs' = Append(shown, "Data Error")
         /\ alive' = TRUE
         /\ UNCHANGED <<store, age_items, age_current, view>>
    ELSE /\ api_calls' = Append(calls, GET_OK)
         /\ dialogs' = shown
         /\ headers' = all_data[1]
         /\ original_data' = original_data \o Tail(all_data)
         /\ IF load_raises(all_data[1], Criteria)
            THEN /\ alive' = FALSE
                 /\ UNCHANGED <<age_items, age_current, view>>
            ELSE /\ alive' = TRUE
                 /\ IF index(all_data[1], H_AGE) # 0
                    THEN /\ age_items' = age_values(all_data[1], Tail(all_data))
                         /\ age_current' = ALL
                    ELSE UNCHANGED <<age_items, age_current>>
                 /\ display_data(Tail(all_data), editable_headers(all_data[1]))

\* load_data, reading all_data from the sheet (outcome "ok") or failing to
\* (outcome "error"), after the calling handler made the calls `calls` and
\* showed the message boxes `shown`
load_data_from(all_data, outcome, calls, shown) ==
    IF outcome = "error"
    THEN /\ api_calls' = Append(calls, GET_FAILED)
         /\ dialogs' = Append(shown, "Data Load Error")
         /\ alive' = TRUE
         /\ UNCHANGED <<store, age_items, age_current, view>>
    ELSE IF all_data = <<>>
    THEN /\ api_calls' = Append(calls, GET_OK)
         /\ dialogs' = Append(shown, "Data Error")
         /\ alive' = TRUE
         /\ UNCHANGED <<store, age_items, age_current, view>>
    ELSE IF populate_raises(all_data[1], Tail(all_data))
    THEN /\ api_calls' = Append(calls, GET_OK)
         /\ dialogs' = Append(shown, "Data Load Error")
         /\ headers' = all_data[1]
         /\ original_data' = Tail(all_data)
         /\ alive' = TRUE
         /\ UNCHANGED <<age_items, age_current, view>>
    ELSE /\ api_calls' = Append(calls, GET_OK)
         /\ dialogs' = shown
         /\ headers' = all_data[1]
         /\ original_data' = Tail(all_data)
         /\ IF load_raises(all_data[1], Criteria)
            THEN /\ alive' = FALSE
                 /\ UNCHANGED <<age_items, age_current, view>>
            ELSE /\ alive' = TRUE
                 /\ IF index(all_data[1], H_AGE) # 0
                    THEN /\ age_items' = age_values(all_data[1], Tail(all_data))
                         /\ age_current' = ALL
                    ELSE UNCHANGED <<age_items, age_current>>
                 /\ display_data(Tail(all_data), editable_headers(all_data[1]))

\* the state NeuropediaApp.__init__ leaves: the widgets as init_ui builds them,
\* then the first load_data
Init ==
    /\ sheet \in InitialSheets
    /\ location_checked = {}
    /\ name_search = EMPTY
    /\ role_search = EMPTY
    /\ days_search = EMPTY
    /\ specialty_search = EMPTY
    /\ languages_search = EMPTY
    /\ current_selected_row = -1
    /\ update_enabled = FALSE
    /\ specialty_browser = EMPTY
    /\ photo_label = NO_PHOTO
    /\ photo_requests = {}
    /\ inflight = EmptyBag
    /\ version_rev = 14
    /\ settings_file = 0
    /\ alive = TRUE
    /\ pc = "app"
    /\ steps = 0
    /\ suspended = <<>>
    /\ web_view = NO_VIEW
    /\ password_entered = NO_ENTRY
    /\ default_appearance
    /\ age_current = ALL
    /\ \E outcome \in {"ok", "error"} :
          IF outcome = "ok" /\ sheet # <<>>
          THEN /\ headers = sheet[1]
               /\ original_data = Tail(sheet)
               /\ table = Tail(sheet)
               /\ age_items = age_values(sheet[1], Tail(sheet))
               /\ editable_fields = [h \in editable_headers(sheet[1]) |-> EMPTY]
               /\ api_calls = <<GET_OK>>
               /\ dialogs = <<>>
          ELSE /\ headers = <<>>
               /\ original_data = <<>>
               /\ table = <<>>
               /\ age_items = {}
               /\ editable_fields = [h \in {} |-> EMPTY]
               /\ api_calls = <<IF outcome = "ok" THEN GET_OK ELSE GET_FAILED>>
               /\ dialogs = <<IF outcome = "ok" THEN "Data Error" ELSE "Data Load Error">>

\* save_settings: settings.json gets version_rev, unless writing it fails
save_settings(rev) == settings_file' \in {rev, settings_file}

\* a handler stopped at a QApplication.processEvents() call: where it stopped,
\* what called it, the calls it made on SHEET and the message boxes it showed
\* so far, and the locals it goes on with
frame(at, caller, calls, shown, idx, new_data) ==
    [at |-> at, caller |-> caller, calls |-> calls, shown |-> shown, idx |-> idx, new_data |-> new_data]

\* the innermost stopped handler, and the others
top == suspended[Len(suspended)]
rest == SubSeq(suspended, 1, Len(suspended) - 1)

\* one more handler may stop in processEvents
can_suspend == Len(suspended) < MaxDepth

\* the Refresh button: load_data, up to its processEvents(); the events that
\* are pending run before it reads the sheet
load_data ==
    /\ alive
    /\ handled
    /\ can_suspend
    /\ suspended' = Append(suspended, frame("load_data", "refresh", <<>>, <<>>, 0, <<>>))
    /\ api_calls' = <<>>
    /\ dialogs' = <<>>
    /\ UNCHANGED <<sheet, store, widgets, view, network, settings, alive, pc, web_view>>

\* load_data goes on after its processEvents(): get_all_values and the rest;
\* called from update_data, version_rev += 1 and save_settings follow it
load_data_resume ==
    /\ alive
    /\ suspended # <<>>
    /\ top.at = "load_data"
    /\ suspended' = rest
    /\ \E outcome \in {"ok", "error"} :
          /\ load_data_from(sheet, outcome, top.calls, top.shown)
          /\ IF top.caller # "update_data"
                \/ (outcome = "ok" /\ sheet # <<>> /\ load_raises(sheet[1], Criteria))
             THEN UNCHANGED settings
             ELSE /\ version_rev' = version_rev + 1
                  /\ save_settings(version_rev + 1)
                  /\ UNCHANGED <<appearance, password_entered>>
    /\ UNCHANGED <<sheet, location_checked, name_search, role_search, days_search, specialty_search, languages_search, network, steps, pc, web_view>>

\* the number of filter widgets that are not in their cleared state
filters_set(crit) ==
    Cardinality({k \in {"loc", "name", "age", "role", "days", "specialty", "languages"} :
        \/ k = "loc" /\ crit.loc # {}
        \/ k = "age" /\ crit.age # ALL
        \/ k \in {"name", "role", "days", "specialty", "languages"} /\ crit[k] # EMPTY})

\* a widget change the model follows: it leaves at most MaxFilters widgets set
within_filters(crit) == filters_set(crit) <= MaxFilters

\* a location check box is toggled: stateChanged runs filter_data
toggle_location ==
    /\ alive
    /\ handled
    /\ UNCHANGED <<pc, suspended>>
    /\ \E loc \in {NPD, NPS, CDC} :
          LET checked == IF loc \in location_checked THEN location_checked \ {loc}
                         ELSE location_checked \cup {loc}
          IN  /\ within_filters([Criteria EXCEPT !.loc = checked])
              /\ location_checked' = checked
              /\ filter_data_slot([Criteria EXCEPT !.loc = checked])
    /\ UNCHANGED <<name_search, role_search, age_items, age_current, days_search, specialty_search, languages_search>>

\* the text of the name filter changes: textChanged runs filter_data
edit_name_search ==
    /\ alive
    /\ handled
    /\ UNCHANGED <<pc, suspended>>
    /\ \E q \in NameQueries \ {name_search} :
          /\ within_filters([Criteria EXCEPT !.name = q])
          /\ name_search' = q
          /\ filter_data_slot([Criteria EXCEPT !.name = q])
    /\ UNCHANGED <<location_checked, role_search, age_items, age_current, days_search, specialty_search, languages_search>>

edit_role_search ==
    /\ alive
    /\ handled
    /\ UNCHANGED <<pc, suspended>>
    /\ \E q \in RoleQueries \ {role_search} :
          /\ within_filters([Criteria EXCEPT !.role = q])
          /\ role_search' = q
          /\ filter_data_slot([Criteria EXCEPT !.role = q])
    /\ UNCHANGED <<location_checked, name_search, age_items, age_current, days_search, specialty_search, languages_search>>

edit_days_search ==
    /\ alive
    /\ handled
    /\ UNCHANGED <<pc, suspended>>
    /\ \E q \in DaysQueries \ {days_search} :
          /\ within_filters([Criteria EXCEPT !.days = q])
          /\ days_search' = q
          /\ filter_data_slot([Criteria EXCEPT !.days = q])
    /\ UNCHANGED <<location_checked, name_search, role_search, age_items, age_current, specialty_search, languages_search>>

edit_specialty_search ==
    /\ alive
    /\ handled
    /\ UNCHANGED <<pc, suspended>>
    /\ \E q \in SpecialtyQueries \ {specialty_search} :
          /\ within_filters([Criteria EXCEPT !.specialty = q])
          /\ specialty_search' = q
          /\ filter_data_slot([Criteria EXCEPT !.specialty = q])
    /\ UNCHANGED <<location_checked, name_search, role_search, age_items, age_current, days_search, languages_search>>

edit_languages_search ==
    /\ alive
    /\ handled
    /\ UNCHANGED <<pc, suspended>>
    /\ \E q \in LanguagesQueries \ {languages_search} :
          /\ within_filters([Criteria EXCEPT !.languages = q])
          /\ languages_search' = q
          /\ filter_data_slot([Criteria EXCEPT !.languages = q])
    /\ UNCHANGED <<location_checked, name_search, role_search, age_items, age_current, days_search, specialty_search>>

\* another item of age_combo is chosen: currentIndexChanged runs filter_data
select_age ==
    /\ alive
    /\ handled
    /\ UNCHANGED <<pc, suspended>>
    /\ \E a \in ({ALL} \cup age_items) \ {age_current} :
          /\ within_filters([Criteria EXCEPT !.age = a])
          /\ age_current' = a
          /\ filter_data_slot([Criteria EXCEPT !.age = a])
    /\ UNCHANGED <<location_checked, name_search, role_search, age_items, days_search, specialty_search, languages_search>>

\* the criteria after each widget reset of clear_filters, in the code's order
clear_steps(crit) ==
    LET c1 == [crit EXCEPT !.loc = @ \ {NPD}]
        c2 == [c1 EXCEPT !.loc = @ \ {NPS}]
        c3 == [c2 EXCEPT !.loc = @ \ {CDC}]
        c4 == [c3 EXCEPT !.name = EMPTY]
        c5 == [c4 EXCEPT !.age = ALL]
        c6 == [c5 EXCEPT !.role = EMPTY]
        c7 == [c6 EXCEPT !.days = EMPTY]
        c8 == [c7 EXCEPT !.specialty = EMPTY]
        c9 == [c8 EXCEPT !.languages = EMPTY]
    IN  <<crit, c1, c2, c3, c4, c5, c6, c7, c8, c9>>

\* a reset that changes its widget runs filter_data, which may raise
clear_raises(hdrs, crit) ==
    \E k \in 2..Len(clear_steps(crit)) :
        /\ clear_steps(crit)[k] # clear_steps(crit)[k - 1]
        /\ filter_raises(hdrs, clear_steps(crit)[k])

\* the Clear Filter button
clear_filters ==
    /\ alive
    /\ handled
    /\ api_calls' = <<>>
    /\ dialogs' = <<>>
    /\ IF clear_raises(headers, Criteria)
       THEN /\ alive' = FALSE
            /\ UNCHANGED <<view, widgets>>
       ELSE /\ alive' = TRUE
            /\ location_checked' = {}
            /\ name_search' = EMPTY
            /\ age_current' = ALL
            /\ role_search' = EMPTY
            /\ days_search' = EMPTY
            /\ specialty_search' = EMPTY
            /\ languages_search' = EMPTY
            /\ UNCHANGED age_items
            /\ display_data(original_data, DOMAIN editable_fields)
    /\ UNCHANGED <<sheet, store, network, settings, pc, suspended, web_view>>


\* load_image_from_url attempts a fetch: the URL is not empty and, stripped,
\* starts with http:// or https://
is_fetched(url) ==
    url # EMPTY /\ (startswith(strip(url), HTTP) \/ startswith(strip(url), HTTPS))

\* the text of the selected row's cell under a header, "" when the sheet has
\* no such column
cell(row, hdrs, h) == IF index(hdrs, h) = 0 THEN EMPTY ELSE row[index(hdrs, h)]

\* a row of clinician_table gets selected: on_clinician_selected, then
\* load_image_from_url
on_clinician_selected ==
    /\ alive
    /\ handled
    /\ \E row_idx \in (0..(Len(table) - 1)) \ {current_selected_row} :
          LET row_data == table[row_idx + 1]
              photo_url == cell(row_data, headers, H_PHOTO)
          IN  /\ current_selected_row' = row_idx
              /\ update_enabled' = TRUE
              /\ editable_fields' = [h \in DOMAIN editable_fields |-> cell(row_data, headers, h)]
              /\ specialty_browser' = cell(row_data, headers, H_SPECIALTY)
              /\ IF is_fetched(photo_url)
                 THEN /\ BagCardinality(inflight) < MaxInflight
                      /\ photo_label' = LOADING
                      /\ photo_requests' = photo_requests \cup {photo_url}
                      /\ inflight' = inflight (+) SetToBag({photo_url})
                 ELSE /\ photo_label' = NO_PHOTO
                      /\ UNCHANGED network
    /\ api_calls' = <<>>
    /\ dialogs' = <<>>
    /\ UNCHANGED <<sheet, store, widgets, table, settings, alive, pc, suspended, web_view>>

\* the selected row gets deselected: on_clinician_selected with no selection
on_clinician_deselected ==
    /\ alive
    /\ handled
    /\ current_selected_row # -1
    /\ current_selected_row' = -1
    /\ update_enabled' = FALSE
    /\ editable_fields' = [h \in DOMAIN editable_fields |-> EMPTY]
    /\ specialty_browser' = EMPTY
    /\ photo_label' = NO_PHOTO
    /\ api_calls' = <<>>
    /\ dialogs' = <<>>
    /\ UNCHANGED <<sheet, store, widgets, table, network, settings, alive, pc, suspended, web_view>>

\* the texts the model types into a cell of clinician_table, whose items are
\* editable, and the columns it types them into
CELL_TEXTS == {<<"Z","e","d">>, <<"B","e","n">>}
CELL_COLUMNS == {H_NAME, H_LANGUAGES}

\* the user edits a cell of the selected row in place; no slot is connected
edit_cell ==
    /\ alive
    /\ handled
    /\ current_selected_row # -1
    /\ \E h \in CELL_COLUMNS, text \in CELL_TEXTS :
          /\ index(headers, h) # 0
          /\ table[current_selected_row + 1][index(headers, h)] # text
          /\ table' = [table EXCEPT ![current_selected_row + 1][index(headers, h)] = text]
    /\ api_calls' = <<>>
    /\ dialogs' = <<>>
    /\ UNCHANGED <<sheet, store, widgets, current_selected_row, update_enabled, editable_fields, specialty_browser, photo_label, network, settings, alive, pc, suspended, web_view>>

\* the texts the model types into a line edit of the detail panel, and the
\* line edits it types them into
FIELD_TEXTS == {<<"P","T">>}
FIELD_HEADERS == {H_ROLE}

\* the user types into a line edit of the detail panel; no slot is connected.
\* The model follows the typing while a row is selected: display_data and
\* on_clinician_selected overwrite whatever was typed before
edit_field ==
    /\ alive
    /\ handled
    /\ current_selected_row # -1
    /\ \E h \in FIELD_HEADERS \cap DOMAIN editable_fields, text \in FIELD_TEXTS :
          /\ editable_fields[h] # text
          /\ editable_fields' = [editable_fields EXCEPT ![h] = text]
    /\ api_calls' = <<>>
    /\ dialogs' = <<>>
    /\ UNCHANGED <<sheet, store, widgets, table, current_selected_row, update_enabled, specialty_browser, photo_label, network, settings, alive, pc, suspended, web_view>>

\* the outcomes of a finished fetch: an image, bytes that are no image, or a
\* network error
REPLIES == {"image", "null", "error"}

\* nam.finished: handle_image_response for one request in flight
handle_image_response ==
    /\ alive
    /\ handled
    /\ \E url \in BagToSet(inflight), reply \in REPLIES :
          /\ inflight' = inflight (-) SetToBag({url})
          /\ photo_requests' = photo_requests \ {url}
          /\ IF url \in photo_requests
             THEN photo_label' = IF reply = "image" THEN [text |-> "", pixmap |-> url]
                                 ELSE IMAGE_ERROR
             ELSE UNCHANGED photo_label
    /\ api_calls' = <<>>
    /\ dialogs' = <<>>
    /\ UNCHANGED <<sheet, store, widgets, table, current_selected_row, update_enabled, editable_fields, specialty_browser, settings, alive, pc, suspended, web_view>>


\* the row of blank cells get_all_values returns for an unwritten row
blank_row(n) == [i \in 1..n |-> EMPTY]

\* update_data: the range_name it passes to SHEET.update for row r and n headers
range_name(r, n) ==
    [start_col |-> "A", start_row |-> r, end_col |-> chr_from_A(n - 1), end_row |-> r]

\* the 1-based column a column letter of an A1 range denotes, 0 when the
\* character is no column letter
column_number(letter) ==
    IF \E i \in 1..Len(UPPER) : UPPER[i] = letter
    THEN CHOOSE i \in 1..Len(UPPER) : UPPER[i] = letter
    ELSE 0

\* SHEET.update accepts the call: the range is a range of the sheet and the
\* values fit it
range_accepted(range, values) ==
    /\ column_number(range.start_col) = 1
    /\ column_number(range.end_col) = Len(values)

\* SHEET.update(range_name="A{r}:{col}{r}", values=[values]): row r of the
\* sheet gets the values; rows between the last row and r read as blank
write_row(sh, r, values) ==
    [i \in 1..(IF r > Len(sh) THEN r ELSE Len(sh)) |->
        IF i = r THEN values
        ELSE IF i <= Len(sh) THEN sh[i]
        ELSE blank_row(Len(values))]

append_row_unless_present(sh, values) ==
    IF values = <<>> \/ (\E r \in 2..Len(sh) : sh[r] = values) THEN sh ELSE Append(sh, values)

\* SHEET.append_row(values): a new last row; a row of no values adds nothing
append_row(sh, values) == IF values = <<>> THEN sh ELSE Append(sh, values)

\* update_data: the 0-based positions of original_data whose name is `name`
matching_rows(data, hdrs, name) ==
    {i \in 0..(Len(data) - 1) : data[i + 1][index(hdrs, H_NAME)] = name}

original_row_idx_default(data, hdrs, name) ==
    IF matching_rows(data, hdrs, name) = {} THEN 2
    ELSE (CHOOSE i \in matching_rows(data, hdrs, name) :
              \A j \in matching_rows(data, hdrs, name) : i <= j) + 2

\* update_data: original_row_idx, -1 when the loop finds no row
original_row_idx(data, hdrs, name) ==
    IF matching_rows(data, hdrs, name) = {} THEN -1
    ELSE (CHOOSE i \in matching_rows(data, hdrs, name) :
              \A j \in matching_rows(data, hdrs, name) : i <= j) + 2

\* update_data: new_values, one value per header
new_values(hdrs, row, fields, specialty) ==
    [i \in 1..Len(hdrs) |->
        IF hdrs[i] = H_PHOTO THEN row[index(hdrs, H_PHOTO)]
        ELSE IF hdrs[i] = H_SPECIALTY THEN specialty
        ELSE IF hdrs[i] = H_LANGUAGES THEN row[index(hdrs, H_LANGUAGES)]
        ELSE IF hdrs[i] \in DOMAIN fields THEN fields[hdrs[i]]
        ELSE row[index(hdrs, hdrs[i])]]

write_failed_reloads(calls, shown) ==
    /\ load_data_from(sheet, "ok", calls, Append(shown, "API Error"))
    /\ UNCHANGED sheet

\* the except branch of update_data and of add_new_staff: SHEET.update or
\* SHEET.append_row raised after the handler showed the message boxes `shown`
write_failed(calls, shown) ==
    /\ dialogs' = Append(shown, "API Error")
    /\ api_calls' = calls
    /\ UNCHANGED <<sheet, store, age_items, age_current, view, alive>>

\* the updates that are confirmed and have not yet reached version_rev += 1
updates_under_way ==
    Cardinality({i \in 1..Len(suspended) :
        suspended[i].at = "update_data" \/ suspended[i].caller = "update_data"})

\* the Update Details button: update_data, up to its processEvents()
update_data ==
    /\ alive
    /\ handled
    /\ update_enabled
    /\ api_calls' = <<>>
    /\ UNCHANGED <<sheet, store, widgets, view, network, settings, pc, web_view>>
    /\ IF current_selected_row = -1
       THEN /\ dialogs' = <<"Selection Error">>
            /\ UNCHANGED <<alive, suspended>>
       ELSE IF index(headers, H_NAME) = 0
       THEN /\ alive' = FALSE
            /\ dialogs' = <<>>
            /\ UNCHANGED suspended
       ELSE LET row == table[current_selected_row + 1]
                selected_clinician_name == row[index(headers, H_NAME)]
                idx == original_row_idx(original_data, headers, selected_clinician_name)
            IN  IF idx = -1
                THEN /\ dialogs' = <<"Update Error">>
                     /\ UNCHANGED <<alive, suspended>>
                ELSE /\ dialogs' = <<"Confirm Update">>
                     /\ UNCHANGED alive
                     /\ \E reply \in {"No", "Yes"} :
                           IF reply = "No"
                           THEN UNCHANGED suspended
                           ELSE /\ can_suspend
                                /\ version_rev + updates_under_way < 14 + MaxRev
                                /\ suspended' = Append(suspended,
                                       frame("update_data", "button", <<>>, <<"Confirm Update">>, idx, <<>>))

\* building new_values raises: a cell of the table is read and no row is
\* selected any more, so clinician_table.item(-1, col) is None
new_values_raises(hdrs, fields, row_idx) ==
    /\ row_idx = -1
    /\ \E i \in 1..Len(hdrs) : hdrs[i] \in {H_PHOTO, H_LANGUAGES} \/ hdrs[i] \notin DOMAIN fields \cup {H_SPECIALTY}

\* update_data goes on after its processEvents(): new_values, SHEET.update,
\* the Success box, and load_data up to its processEvents()
update_data_resume ==
    /\ alive
    /\ suspended # <<>>
    /\ top.at = "update_data"
    /\ UNCHANGED <<widgets, network, settings, steps, pc, web_view>>
    /\ IF new_values_raises(headers, editable_fields, current_selected_row)
       THEN /\ write_failed(<<>>, top.shown)
            /\ suspended' = rest
       ELSE LET row == IF current_selected_row = -1 THEN <<>> ELSE table[current_selected_row + 1]
                values == new_values(headers, row, editable_fields, specialty_browser)
                call(ok) == [op |-> "update", row |-> top.idx, range |-> range_name(top.idx, Len(headers)),
                             values |-> values, ok |-> ok]
            IN  \E written \in BOOLEAN :
                   IF ~written
                   THEN /\ write_failed(<<call(FALSE)>>, top.shown)
                        /\ suspended' = rest
                   ELSE /\ range_accepted(range_name(top.idx, Len(headers)), values)
                        /\ sheet' = write_row(sheet, top.idx, values)
                        /\ api_calls' = <<call(TRUE)>>
                        /\ dialogs' = Append(top.shown, "Success")
                        /\ suspended' = Append(rest, frame("load_data", "update_data", <<call(TRUE)>>,
                                                           Append(top.shown, "Success"), top.idx, <<>>))
                        /\ UNCHANGED <<store, view, alive>>

\* what the user does with the prompts of add_new_staff
NEW_STAFF_CHOICES == {"cancelled", "wrong password", "closed", "declined", "saved"}

\* the staff the model enters in the New Staff dialog
NEW_STAFF == {BEN}

\* the password add_new_staff compares the entry with
PASSWORD == "Stephendi@s"

\* the texts the model enters in the password prompt
PASSWORDS == {PASSWORD, "stephendi@s", ""}

password_accepted_nonempty(password) == password # ""

\* password == "Stephendi@s"
password_accepted(password) == password = PASSWORD

\* how the New Staff dialog ends once it is open
DIALOG_OUTCOMES == {"closed", "declined", "saved"}

\* the way add_new_staff takes: ok and password are what the prompt returned
new_staff_choice(ok, password, outcome) ==
    IF ~ok THEN "cancelled"
    ELSE IF ~password_accepted(password) THEN "wrong password"
    ELSE outcome

\* the New Staff button: add_new_staff, NewStaffDialog and save_new_staff, up
\* to the processEvents() of add_new_staff
add_new_staff ==
    /\ alive
    /\ handled
    /\ api_calls' = <<>>
    /\ UNCHANGED <<sheet, store, widgets, view, network, version_rev, settings_file, appearance, alive, pc, web_view>>
    /\ \E choice \in NEW_STAFF_CHOICES, staff \in NEW_STAFF :
          /\ \E ok \in BOOLEAN, password \in PASSWORDS, outcome \in DIALOG_OUTCOMES :
                /\ choice = new_staff_choice(ok, password, outcome)
                /\ password_entered' = [ok |-> ok, text |-> password]
          /\ dialogs' = CASE choice = "cancelled" -> <<"Password Required">>
                          [] choice = "wrong password" -> <<"Password Required", "Access Denied">>
                          [] choice = "closed" -> <<"Password Required">>
                          [] choice = "declined" -> <<"Password Required", "Confirm Save">>
                          [] choice = "saved" -> <<"Password Required", "Confirm Save">>
          /\ IF choice # "saved"
             THEN UNCHANGED suspended
             ELSE /\ can_suspend
                  /\ suspended' = Append(suspended,
                         frame("add_new_staff", "button", <<>>, <<"Password Required", "Confirm Save">>,
                               0, Row(staff, headers)))

\* add_new_staff goes on after its processEvents(): SHEET.append_row, the
\* Success box, and load_data up to its processEvents()
add_new_staff_resume ==
    /\ alive
    /\ suspended # <<>>
    /\ top.at = "add_new_staff"
    /\ UNCHANGED <<widgets, network, settings, steps, pc, web_view>>
    /\ LET call(ok) == [op |-> "append_row", values |-> top.new_data, ok |-> ok]
       IN  \E appended \in BOOLEAN :
              IF ~appended
              THEN /\ write_failed(<<call(FALSE)>>, top.shown)
                   /\ suspended' = rest
              ELSE /\ Len(sheet) <= MaxRows
                   /\ sheet' = append_row(sheet, top.new_data)
                   /\ api_calls' = <<call(TRUE)>>
                   /\ dialogs' = Append(top.shown, "Success")
                   /\ suspended' = Append(rest, frame("load_data", "add_new_staff", <<call(TRUE)>>,
                                                      Append(top.shown, "Success"), 0, <<>>))
                   /\ UNCHANGED <<store, view, alive>>

Next ==
    \/ load_data
    \/ toggle_location
    \/ edit_name_search
    \/ edit_role_search
    \/ edit_days_search
    \/ edit_specialty_search
    \/ edit_languages_search
    \/ select_age
    \/ clear_filters
    \/ on_clinician_selected
    \/ on_clinician_deselected
    \/ edit_cell
    \/ edit_field
    \/ handle_image_response
    \/ update_data
    \/ add_new_staff
    \/ load_data_resume
    \/ update_data_resume
    \/ add_new_staff_resume

Spec == Init /\ [][Next]_vars


(***************************************************************************)
(* The photo of a selected record, as a function of the Photo cell: the    *)
(* sheet holds one record whose Photo cell is drawn from PHOTO_VALUES, and *)
(* the record is selected in the desktop client or in the web variant.     *)
(***************************************************************************)

\* Photo cells: empty, two URLs, a URL between blanks, another scheme, a
\* relative path that begins with "http", a file name, an upper-case URL
PHOTO_VALUES ==
    {EMPTY, URL_A, URL_B,
     <<" ">> \o URL_A \o <<" ">>,
     <<"f","t","p",":","/","/","a">>,
     <<"h","t","t","p","d","/","a",".","p","n","g">>,
     <<"a",".","p","n","g">>,
     <<"H","T","T","P",":","/","/","A">>}

\* the staff whose Photo cell is drawn
PHOTO_STAFF == {ANN, ANNA}

\* main, the details panel: st.image(photo_url) or st.warning("No Photo")
web_photo(photo_url) ==
    IF photo_url # EMPTY /\ startswith(photo_url, <<"h","t","t","p">>)
    THEN [shown |-> "st.image", url |-> photo_url]
    ELSE [shown |-> "No Photo", url |-> EMPTY]

\* row.get(column, ""): the value of the row, "" when the frame has no such column
row_get(cols, row, column) == IF index(cols, column) = 0 THEN EMPTY ELSE row[index(cols, column)]

\* the usual layout with the two contact columns
HEADERS_CONTACT == HEADERS_STD \o <<"Contact Number", "Contact (Extn)">>

InitPhoto ==
    /\ headers \in HeaderLists \cup {HEADERS_CONTACT}
    /\ \E staff \in PHOTO_STAFF, photo \in PHOTO_VALUES :
          original_data = <<Row([staff EXCEPT ![H_PHOTO] = photo], headers)>>
    /\ sheet = <<headers>> \o original_data
    /\ table = original_data
    /\ current_selected_row = -1
    /\ update_enabled = FALSE
    /\ location_checked \in {{}, {NPD}, {CDC}}
    /\ name_search \in {EMPTY, <<"a","n">>, <<" "," ">>}
    /\ role_search = EMPTY
    /\ age_items = age_values(headers, original_data)
    /\ age_current \in {ALL} \cup age_items
    /\ days_search = EMPTY
    /\ specialty_search = EMPTY
    /\ languages_search = EMPTY
    /\ editable_fields = [h \in editable_headers(headers) |-> EMPTY]
    /\ specialty_browser = EMPTY
    /\ photo_label = NO_PHOTO
    /\ photo_requests = {}
    /\ inflight = EmptyBag
    /\ version_rev = 14
    /\ settings_file = 0
    /\ api_calls = <<>>
    /\ dialogs = <<>>
    /\ alive = TRUE
    /\ pc = "start"
    /\ steps = 0
    /\ suspended = <<>>
    /\ web_view = NO_VIEW
    /\ password_entered = NO_ENTRY
    /\ default_appearance

\* the web variant: one run of main() in which a row of the staff list is
\* selected, and the details panel shows its photo
web_details ==
    /\ pc = "start"
    /\ web_main(sheet[1], Tail(sheet), Criteria).kind = "Staff List"
    /\ \E selected_index \in 0..(Len(web_main(sheet[1], Tail(sheet), Criteria).rows) - 1) :
          LET row == web_main(sheet[1], Tail(sheet), Criteria).rows[selected_index + 1]
          IN  web_view' = [kind |-> "Clinician Details", rows |-> <<row>>,
                           table |-> web_main(sheet[1], Tail(sheet), Criteria).table,
                           photo |-> web_photo(row_get(sheet[1], row, H_PHOTO))]
    /\ pc' = "details"
    /\ UNCHANGED <<sheet, store, widgets, view, network, settings, api_calls, dialogs, alive, steps, suspended>>

NextPhoto == on_clinician_selected \/ web_details \/ web_run

SpecPhoto == InitPhoto /\ [][NextPhoto]_vars


(***************************************************************************)
(* Start-up with a settings file, and the Settings dialog.                 *)
(***************************************************************************)

\* the values the model puts under the four keys of a settings object
FONT_VALUES == {ABSENT, STR("Roboto"), STR("Arial")}
SIZE_VALUES == {ABSENT, INT(12), INT(16), STR("16")}
THEME_VALUES == {ABSENT, STR("Green"), STR("Dark"), STR("Purple")}
REV_VALUES == {ABSENT, INT(14), INT(20), STR("20")}

\* the documents json.load returns that are no object
NON_OBJECTS == {"array", "string", "number", "null"}

\* settings.json: absent, not readable, no JSON text, no object, or an object
SETTINGS_DOCUMENTS ==
    {document(kind, ABSENT, ABSENT, ABSENT, ABSENT) :
        kind \in {"absent", "unreadable", "invalid"} \cup NON_OBJECTS}
    \cup {document("object", font, fontSize, theme, rev) :
            font \in FONT_VALUES, fontSize \in SIZE_VALUES, theme \in THEME_VALUES, rev \in REV_VALUES}

\* load_settings: {} unless json.load returned a document; "version_rev" is
\* looked up in the document and set to 14 unless an integer is found, which
\* raises TypeError for a document that is no object
load_settings(doc) ==
    LET found == IF doc.kind \in {"absent", "unreadable", "invalid"} THEN NO_FILE ELSE doc
    IN  [raised |-> doc.kind \in NON_OBJECTS,
         settings |-> [found EXCEPT !.version_rev = IF @.t = "int" THEN @ ELSE DEFAULT_REV]]

\* settings.get(key, default)
settings_get(loaded, key, default) == IF loaded[key] = ABSENT THEN default ELSE loaded[key]

InitSettings ==
    /\ settings_doc \in SETTINGS_DOCUMENTS
    /\ clinician_font = ABSENT
    /\ clinician_font_size = ABSENT
    /\ current_theme = ABSENT
    /\ stylesheet = [font |-> ABSENT, size |-> ABSENT, colors |-> "none"]
    /\ version_rev = 0
    /\ settings_file = 0
    /\ sheet = <<HEADERS_STD, Row(ANN, HEADERS_STD)>>
    /\ headers = <<>>
    /\ original_data = <<>>
    /\ table = <<>>
    /\ age_items = {}
    /\ age_current = ALL
    /\ editable_fields = [h \in {} |-> EMPTY]
    /\ location_checked = {}
    /\ name_search = EMPTY
    /\ role_search = EMPTY
    /\ days_search = EMPTY
    /\ specialty_search = EMPTY
    /\ languages_search = EMPTY
    /\ current_selected_row = -1
    /\ update_enabled = FALSE
    /\ specialty_browser = EMPTY
    /\ photo_label = NO_PHOTO
    /\ photo_requests = {}
    /\ inflight = EmptyBag
    /\ api_calls = <<>>
    /\ dialogs = <<>>
    /\ alive = TRUE
    /\ pc = "boot"
    /\ steps = 0
    /\ suspended = <<>>
    /\ web_view = NO_VIEW
    /\ password_entered = NO_ENTRY

\* NeuropediaApp.__init__: load_settings, the four settings with their
\* defaults, init_ui with its style sheet, and load_data up to its
\* processEvents(); an exception ends the start
startup ==
    /\ pc = "boot"
    /\ alive
    /\ UNCHANGED <<sheet, store, widgets, view, network, settings_file, settings_doc, password_entered, steps, web_view>>
    /\ LET loaded == load_settings(settings_doc)
       IN  IF loaded.raised
           THEN /\ alive' = FALSE
                /\ UNCHANGED <<version_rev, clinician_font, clinician_font_size, current_theme, stylesheet,
                               api_calls, dialogs, pc, suspended>>
           ELSE /\ clinician_font' = settings_get(loaded.settings, "font", DEFAULT_FONT)
                /\ clinician_font_size' = settings_get(loaded.settings, "fontSize", DEFAULT_SIZE)
                /\ current_theme' = settings_get(loaded.settings, "theme", DEFAULT_THEME)
                /\ version_rev' = settings_get(loaded.settings, "version_rev", DEFAULT_REV).v
                /\ stylesheet' = get_stylesheet(clinician_font', clinician_font_size', current_theme')
                /\ suspended' = <<frame("load_data", "__init__", <<>>, <<>>, 0, <<>>)>>
                /\ api_calls' = <<>>
                /\ dialogs' = <<>>
                /\ pc' = "app"
                /\ UNCHANGED alive

\* the themes the Settings dialog can come back with: the one it was opened
\* with, the name set by a colour button, or the colour a pressed button left
DIALOG_THEMES == {STR("Dark"), STR("#008764")}

\* the Settings menu entry: show_settings_dialog. SettingsDialog.__init__
\* raises for a theme that is no key of THEMES, a font that is no text or a
\* size that is no integer; Apply takes the new settings over and saves them
show_settings_dialog ==
    /\ alive
    /\ pc = "app"
    /\ \A i \in DOMAIN suspended : suspended[i].caller # "__init__"
    /\ handled
    /\ UNCHANGED <<sheet, store, widgets, view, network, version_rev, settings_doc, password_entered, api_calls, dialogs, pc, suspended, web_view>>
    /\ IF \/ ~(current_theme.t = "str" /\ current_theme.v \in THEME_NAMES)
          \/ clinician_font.t # "str"
          \/ clinician_font_size.t # "int"
       THEN /\ alive' = FALSE
            /\ UNCHANGED <<settings_file, clinician_font, clinician_font_size, current_theme, stylesheet>>
       ELSE /\ UNCHANGED alive
            /\ \E accepted \in BOOLEAN :
                  IF ~accepted
                  THEN UNCHANGED <<settings_file, clinician_font, clinician_font_size, current_theme, stylesheet>>
                  ELSE \E new_font \in {clinician_font, STR("Arial")},
                          new_size \in {clinician_font_size, INT(16)},
                          new_theme \in {current_theme} \cup DIALOG_THEMES :
                          /\ clinician_font' = new_font
                          /\ clinician_font_size' = new_size
                          /\ current_theme' = new_theme
                          /\ stylesheet' = get_stylesheet(new_font, new_size, new_theme)
                          /\ save_settings(version_rev)

NextSettings == startup \/ load_data_resume \/ show_settings_dialog

SpecSettings == InitSettings /\ [][NextSettings]_vars


(***************************************************************************)
(* Loads from a source whose rows differ in length.                        *)
(***************************************************************************)

\* the rows get_all_values returns for a record under the headers: the whole
\* row, or the row cut after its first cells
RowsReturned(staff, hdrs) ==
    {SubSeq(Row(staff, hdrs), 1, n) : n \in {1, 3, Len(hdrs) - 1, Len(hdrs)}}

\* what the source returns: a header row and up to MaxRows rows, each whole or cut
RaggedSheets ==
    UNION {{<<hdrs>>} \cup {<<hdrs, r>> : r \in RowsReturned(ANN, hdrs)}
           \cup {<<hdrs, r1, r2>> : r1 \in RowsReturned(ANN, hdrs), r2 \in RowsReturned(BEN, hdrs)}
           : hdrs \in {HEADERS_STD, HEADERS_ALT, HEADERS_NOLANG}}

\* the client after a first load that failed, all filters clear, on a source
\* that returns rows of differing lengths
InitLoad ==
    /\ sheet \in RaggedSheets
    /\ headers = <<>>
    /\ original_data = <<>>
    /\ table = <<>>
    /\ age_items = {}
    /\ age_current = ALL
    /\ editable_fields = [h \in {} |-> EMPTY]
    /\ location_checked = {}
    /\ name_search = EMPTY
    /\ role_search = EMPTY
    /\ days_search = EMPTY
    /\ specialty_search = EMPTY
    /\ languages_search = EMPTY
    /\ current_selected_row = -1
    /\ update_enabled = FALSE
    /\ specialty_browser = EMPTY
    /\ photo_label = NO_PHOTO
    /\ photo_requests = {}
    /\ inflight = EmptyBag
    /\ version_rev = 14
    /\ settings_file = 0
    /\ api_calls = <<GET_FAILED>>
    /\ dialogs = <<"Data Load Error">>
    /\ alive = TRUE
    /\ pc = "app"
    /\ steps = 0
    /\ suspended = <<>>
    /\ web_view = NO_VIEW
    /\ password_entered = NO_ENTRY
    /\ default_appearance

NextLoad == load_data \/ load_data_resume

SpecLoad == InitLoad /\ [][NextLoad]_vars


(***************************************************************************)
(* The desktop client next to another writer of the same sheet.            *)
(***************************************************************************)

\* the sheet with the row `values` put in as row r, the rows from r on moved down
insert_row(sh, r, values) == SubSeq(sh, 1, r - 1) \o <<values>> \o SubSeq(sh, r, Len(sh))

\* the sheet without its row r
delete_row(sh, r) == SubSeq(sh, 1, r - 1) \o SubSeq(sh, r + 1, Len(sh))

\* the sheet with its rows r and r + 1 exchanged
swap_rows(sh, r) == [i \in DOMAIN sh |-> IF i = r THEN sh[r + 1] ELSE IF i = r + 1 THEN sh[r] ELSE sh[i]]

\* another client of the shared sheet inserts a row, deletes one, or puts the
\* rows in another order; this client is told nothing
other_writer ==
    /\ pc = "app"
    /\ Len(sheet) >= 1
    /\ \/ /\ Len(sheet) <= MaxRows
          /\ sheet' = insert_row(sheet, 2, Row(ANNA, sheet[1]))
       \/ /\ Len(sheet) >= 2
          /\ sheet' = delete_row(sheet, 2)
       \/ /\ Len(sheet) >= 3
          /\ sheet' = swap_rows(sheet, 2)
    /\ UNCHANGED <<store, widgets, view, network, settings, api_calls, dialogs, alive, pc, steps, suspended, web_view>>

NextShared ==
    \/ on_clinician_selected
    \/ edit_field
    \/ update_data
    \/ update_data_resume
    \/ load_data_resume
    \/ other_writer

SpecShared == Init /\ [][NextShared]_vars


(***************************************************************************)
(* The filter semantics of the specification, record by record.            *)
(***************************************************************************)

\* a free-text criterion: trimmed, case-insensitive substring; blank = inactive
matches_text(query, value) ==
    LET t == strip(query)
    IN  t = EMPTY \/ contains(lower(t), lower(value))

\* the multi-choice criterion: any choice is a substring; none chosen = inactive
matches_location(choices, value) ==
    choices = {} \/ \E c \in choices : contains(c, value)

\* the exact-choice criterion: equality; "All" or empty = inactive
matches_age(choice, value) ==
    choice \in {ALL, EMPTY} \/ value = choice

\* the value of a record's field, by header name
field(row, hdrs, h) == row[index(hdrs, h)]

text_active(query) == strip(query) # EMPTY

\* the record satisfies every active criterion
satisfies(row, hdrs, crit) ==
    /\ crit.loc # {} => matches_location(crit.loc, field(row, hdrs, H_LOCATION))
    /\ text_active(crit.name) => matches_text(crit.name, field(row, hdrs, H_NAME))
    /\ crit.age \notin {ALL, EMPTY} => matches_age(crit.age, field(row, hdrs, H_AGE))
    /\ text_active(crit.role) => matches_text(crit.role, field(row, hdrs, H_ROLE))
    /\ text_active(crit.days) => matches_text(crit.days, field(row, hdrs, H_DAYS))
    /\ text_active(crit.specialty) => matches_text(crit.specialty, field(row, hdrs, H_SPECIALTY))
    /\ text_active(crit.languages) => matches_text(crit.languages, field(row, hdrs, H_LANGUAGES))

\* every filter of the criteria set is inactive
all_inactive(crit) ==
    /\ crit.loc = {}
    /\ crit.age \in {ALL, EMPTY}
    /\ \A q \in {crit.name, crit.role, crit.days, crit.specialty, crit.languages} : ~text_active(q)

\* the number of active filters of the criteria set
active_count(crit) ==
    Cardinality({k \in {"loc", "name", "age", "role", "days", "specialty", "languages"} :
        \/ k = "loc" /\ crit.loc # {}
        \/ k = "age" /\ crit.age \notin {ALL, EMPTY}
        \/ k \in {"name", "role", "days", "specialty", "languages"} /\ text_active(crit[k])})

\* s is a subsequence of t: some strictly increasing choice of positions of t
\* spells s
RECURSIVE is_subsequence(_, _)
is_subsequence(s, t) ==
    IF s = <<>> THEN TRUE
    ELSE IF t = <<>> THEN FALSE
    ELSE IF Head(s) = Head(t) THEN is_subsequence(Tail(s), Tail(t))
    ELSE is_subsequence(s, Tail(t))

\* the desktop slot ran on the drawn inputs and returned
Applied == pc = "filter_data" /\ alive

\* the positions of the record list whose record satisfies the criteria
satisfying(data, hdrs, crit) ==
    LET ok(row) == satisfies(row, hdrs, crit)
    IN  SelectSeq(data, ok)

(***************************************************************************)
(* C1: the desktop filter shows exactly the records of the full record     *)
(* store that satisfy every active criterion (AND across the filters).     *)
(***************************************************************************)
C1_FilterIsConjunction ==
    Applied => table = satisfying(original_data, headers, Criteria)

C1_Witness ==
    /\ Applied
    /\ active_count(Criteria) >= 2
    /\ table # <<>>
    /\ Len(table) < Len(original_data)

(***************************************************************************)
(* C2: identity law: with every filter inactive the filter shows the full  *)
(* record store, every record, in the original order.                      *)
(***************************************************************************)
C2_IdentityLaw ==
    (Applied /\ all_inactive(Criteria)) => table = original_data

C2_Witness ==
    /\ Applied
    /\ all_inactive(Criteria)
    /\ name_search # EMPTY
    /\ age_current = EMPTY
    /\ Len(table) >= 2

(***************************************************************************)
(* C3: order preservation: the filter result is a subsequence of the       *)
(* record store (same relative order, nothing duplicated).                 *)
(***************************************************************************)
C3_OrderPreserved ==
    Applied => is_subsequence(table, original_data)

C3_Witness ==
    /\ Applied
    /\ ~all_inactive(Criteria)
    /\ Len(table) >= 2
    /\ table[1] # table[2]


\* the free-text filters: the key of the criteria set and the header each reads
TEXT_FILTERS == {<<"name", H_NAME>>, <<"role", H_ROLE>>, <<"days", H_DAYS>>,
                 <<"specialty", H_SPECIALTY>>, <<"languages", H_LANGUAGES>>}

\* the records of a list that the free-text criterion `query` on `header` matches
text_matching(data, hdrs, header, query) ==
    LET ok(row) == ~text_active(query) \/ matches_text(query, field(row, hdrs, header))
    IN  SelectSeq(data, ok)

\* one run of the web variant got as far as filtering, and filtered
WebFiltered == pc = "main" /\ web_view.kind \in {"Staff List", "No matching staff found."}

\* the desktop half of C4: each free-text filter, on top of the other filters,
\* keeps exactly the records its trimmed, lower-cased query matches
C4_DesktopFreeText ==
    Applied => \A f \in TEXT_FILTERS :
        table = text_matching(filter_rows(original_data, headers, [Criteria EXCEPT ![f[1]] = EMPTY]),
                              headers, f[2], Criteria[f[1]])

\* the web half of C4
C4_WebFreeText ==
    WebFiltered => \A f \in TEXT_FILTERS :
        web_view.rows = text_matching(web_filter_rows(Tail(sheet), sheet[1], [Criteria EXCEPT ![f[1]] = EMPTY]),
                                      sheet[1], f[2], Criteria[f[1]])

(***************************************************************************)
(* C4: every free-text filter, in the desktop and in the web variant,      *)
(* trims the query and keeps a record iff the lower-cased trimmed query is *)
(* a substring of the lower-cased field; a blank query keeps every record, *)
(* also while another filter is active.                                    *)
(***************************************************************************)
C4_FreeTextTrimmed == C4_DesktopFreeText /\ C4_WebFreeText

\* the records of a list that the location choices match
location_matching(data, hdrs, choices) ==
    LET ok(row) == choices = {} \/ matches_location(choices, field(row, hdrs, H_LOCATION))
    IN  SelectSeq(data, ok)

C5_WitnessNoneSelected ==
    /\ Applied
    /\ location_checked = {}
    /\ text_active(name_search)
    /\ table # <<>>

\* the records of a list whose age group equals the choice
age_matching(data, hdrs, choice) ==
    LET ok(row) == choice \in {ALL, EMPTY} \/ matches_age(choice, field(row, hdrs, H_AGE))
    IN  SelectSeq(data, ok)

(***************************************************************************)
(* C6: the age-group filter, on top of the other filters, keeps exactly    *)
(* the records whose "Age Group Seen" equals the selected value; "All" or  *)
(* the empty string keeps every record.  Desktop and web variant.          *)
(***************************************************************************)
C6_AgeExact ==
    /\ Applied =>
          table = age_matching(filter_rows(original_data, headers, [Criteria EXCEPT !.age = ALL]),
                               headers, age_current)
    /\ WebFiltered =>
          web_view.rows = age_matching(web_filter_rows(Tail(sheet), sheet[1], [Criteria EXCEPT !.age = ALL]),
                                       sheet[1], age_current)

C6_Witness ==
    /\ Applied
    /\ age_current = field(Row(ANN, headers), headers, H_AGE)
    /\ Len(original_data) = 2
    /\ field(original_data[1], headers, H_AGE) = field(Row(SMITH, headers), headers, H_AGE)
    /\ original_data[2] = Row(ANN, headers)
    /\ table = <<Row(ANN, headers)>>

(***************************************************************************)
(* C7: idempotence: filtering the filter's result with the same criteria   *)
(* gives the same list.                                                    *)
(***************************************************************************)
C7_Idempotent ==
    Applied => filter_rows(table, headers, Criteria) = table

C7_Witness ==
    /\ Applied
    /\ active_count(Criteria) >= 1
    /\ table # <<>>
    /\ Len(table) < Len(original_data)


(***************************************************************************)
(* The photo of the selected record.                                       *)
(***************************************************************************)

\* the Photo cell of the selected row, "" when no row is selected
selected_photo_url ==
    IF current_selected_row = -1 THEN EMPTY
    ELSE cell(table[current_selected_row + 1], headers, H_PHOTO)

\* the selected record has a photo that load_image_from_url fetches: the request
\* issued for it is the most recently issued one
fetch_issued_for_selected == current_selected_row # -1 /\ is_fetched(selected_photo_url)

\* this step is the completion of one fetch of url
completes(url) == url \in BagToSet(inflight) /\ inflight' = inflight (-) SetToBag({url})

\* every fetch has completed and the label shows the outcome of the fetch of
\* the selected record's photo: its image, or "Image Error"
C8_FinalPhoto ==
    (fetch_issued_for_selected /\ inflight = EmptyBag) =>
        photo_label \in {[text |-> "", pixmap |-> selected_photo_url], IMAGE_ERROR}

(***************************************************************************)
(* C8: photo fetch is last-request-wins by request identity.  Once a fetch *)
(* has been issued for the newly selected record, the completion of an     *)
(* older fetch, for the URL of a record selected before, leaves the photo  *)
(* label as it is; and once every fetch has completed the label shows the  *)
(* photo of the most recently issued request, whatever the order of the    *)
(* completions.                                                            *)
(***************************************************************************)
C8_LastRequestWins ==
    [][/\ \A url \in BagToSet(inflight) :
              (fetch_issued_for_selected /\ url # selected_photo_url /\ completes(url))
                  => photo_label' = photo_label
       /\ C8_FinalPhoto']_vars

\* a stale completion put the photo of a record selected before on the label
C8_StaleShown ==
    /\ fetch_issued_for_selected
    /\ photo_label.pixmap \notin {EMPTY, selected_photo_url}

(***************************************************************************)
(* Updating a record whose name is not in the last load.                   *)
(***************************************************************************)

\* update_data is past its selection check and the name in the selected row
\* of the table matches no row of original_data
name_not_found ==
    /\ alive
    /\ update_enabled
    /\ current_selected_row # -1
    /\ index(headers, H_NAME) # 0
    /\ matching_rows(original_data, headers,
                     table[current_selected_row + 1][index(headers, H_NAME)]) = {}

(***************************************************************************)
(* C9: update_data with a name that matches no record of the last load     *)
(* ends with the "Update Error" (original row not found) message, makes no *)
(* call that writes to the sheet, and leaves the sheet, headers and        *)
(* original_data as they were.                                             *)
(***************************************************************************)
C9_NotFoundNoWrite ==
    [][(name_not_found /\ update_data) =>
          /\ dialogs' = <<"Update Error">>
          /\ api_calls' = <<>>
          /\ sheet' = sheet
          /\ headers' = headers
          /\ original_data' = original_data]_vars

C9_Witness ==
    /\ name_not_found
    /\ dialogs = <<"Update Error">>
    /\ api_calls = <<>>
    /\ original_data # <<>>

(***************************************************************************)
(* Failed writes.                                                          *)
(***************************************************************************)

\* the handler called SHEET.update or SHEET.append_row and the call raised
failed_write(calls) ==
    \E i \in 1..Len(calls) : calls[i].op \in {"update", "append_row"} /\ ~calls[i].ok

(***************************************************************************)
(* C10: when the SHEET.update of update_data or the SHEET.append_row of    *)
(* add_new_staff fails, headers and original_data are unchanged, the       *)
(* handler does not reload (no get_all_values call, the table and          *)
(* version_rev stay), and it reports "API Error", never "Success".         *)
(***************************************************************************)
C10_FailedWriteNoReload ==
    [][failed_write(api_calls') =>
          /\ headers' = headers
          /\ original_data' = original_data
          /\ table' = table
          /\ sheet' = sheet
          /\ version_rev' = version_rev
          /\ \A i \in 1..Len(api_calls') : api_calls'[i].op # "get_all_values"
          /\ \A i \in 1..Len(dialogs') : dialogs'[i] # "Success"
          /\ dialogs'[Len(dialogs')] = "API Error"]_vars

\* a failed update of a selected record whose line edit was changed
C10_Witness ==
    /\ failed_write(api_calls)
    /\ api_calls[1].op = "update"
    /\ current_selected_row # -1
    /\ H_ROLE \in DOMAIN editable_fields
    /\ editable_fields[H_ROLE] # cell(original_data[current_selected_row + 1], headers, H_ROLE)
    /\ dialogs = <<"Confirm Update", "API Error">>

\* a failed append
C10_WitnessAppend ==
    /\ failed_write(api_calls)
    /\ api_calls[1].op = "append_row"
    /\ original_data # <<>>


(***************************************************************************)
(* The row and the range an update writes.                                 *)
(***************************************************************************)

\* the name in the selected row of the table
selected_name == table[current_selected_row + 1][index(headers, H_NAME)]

\* the 0-based position in the last load of the first record with that name
position_in_last_load(name) ==
    CHOOSE p \in 0..(Len(original_data) - 1) :
        /\ field(original_data[p + 1], headers, H_NAME) = name
        /\ \A q \in 0..(p - 1) : field(original_data[q + 1], headers, H_NAME) # name

\* the call writes the row the handler looked up, one value per header in
\* header order, into the columns 1..Len(headers) of that row
writes_matched_row(call) ==
    /\ call.row = top.idx
    /\ Len(call.values) = Len(headers)
    /\ \A k \in 1..Len(headers) :
          headers[k] \in DOMAIN editable_fields => call.values[k] = editable_fields[headers[k]]
    /\ call.range.start_row = call.row
    /\ call.range.end_row = call.row
    /\ column_number(call.range.start_col) = 1
    /\ column_number(call.range.end_col) = Len(headers)

\* update_data has found the row and the user has confirmed
update_confirmed == update_data /\ Len(suspended') > Len(suspended)

\* update_data reaches SHEET.update
update_called ==
    update_data_resume /\ \E i \in 1..Len(api_calls') : api_calls'[i].op = "update"

\* the row update_data looks up is position + 2, and the call it makes then
\* writes that row, whole
row_and_range ==
    /\ update_confirmed => suspended'[Len(suspended')].idx = position_in_last_load(selected_name) + 2
    /\ update_called => \A i \in 1..Len(api_calls') :
          api_calls'[i].op = "update" => writes_matched_row(api_calls'[i])

(***************************************************************************)
(* C11: an update writes the sheet row (position of the matched record in  *)
(* the last load) + 2, with exactly one value per header in header order,  *)
(* covering exactly the columns 1 through len(headers) of that row, for    *)
(* every header count.                                                     *)
(***************************************************************************)
C11_UpdateRowAndRange == [][row_and_range]_vars

\* the same, for the sheets of at most 26 columns
C11_UpToColumnZ == [][Len(headers) <= Len(UPPER) => row_and_range]_vars

\* an update of a sheet of 27 columns was attempted, with the range A2:[2
C11_WideUpdate ==
    /\ \E i \in 1..Len(api_calls) : api_calls[i].op = "update" /\ api_calls[i].range.end_col = "["
    /\ Len(headers) > Len(UPPER)


(***************************************************************************)
(* Committing an edit.                                                     *)
(***************************************************************************)

\* the calls of an operation among the calls a handler made
calls_of(calls, op) == {i \in 1..Len(calls) : calls[i].op = op}

\* the user answered No to "Confirm Update"
update_declined ==
    update_data /\ dialogs' = <<"Confirm Update">> /\ suspended' = suspended

\* an update has written its row and its reload has not yet read the sheet
reload_pending ==
    \E i \in 1..Len(suspended) : suspended[i].at = "load_data" /\ suspended[i].caller = "update_data"

\* this step handles a user action
user_action == steps' # steps /\ ~handle_image_response

(***************************************************************************)
(* C12: a confirmed edit performs exactly one row write; when the write    *)
(* succeeds the full reload of the store follows before any user action    *)
(* is handled; declining the confirmation performs no write and no reload. *)
(***************************************************************************)
C12_WriteThenReload ==
    [][/\ update_declined => (api_calls' = <<>> /\ sheet' = sheet /\ store' = store)
       /\ update_data_resume => Cardinality(calls_of(api_calls', "update")) = 1
       /\ reload_pending => ~user_action
       /\ (reload_pending /\ load_data_resume) => calls_of(api_calls', "get_all_values") # {}]_vars

\* the parts of C12 that hold: a declined update writes and reloads nothing, a
\* commit never writes more than one row, and the reload after a write reads
\* the sheet
C12_NoWriteWhenDeclined ==
    [][/\ update_declined => (api_calls' = <<>> /\ sheet' = sheet /\ store' = store)
       /\ update_data_resume => Cardinality(calls_of(api_calls', "update")) <= 1
       /\ (reload_pending /\ load_data_resume) => calls_of(api_calls', "get_all_values") # {}]_vars

\* a user action was handled between the write of an update and its reload
C12_ActionBeforeReload ==
    /\ reload_pending
    /\ calls_of(api_calls, "update") = {}


(***************************************************************************)
(* Loading a source without data rows.                                     *)
(***************************************************************************)

\* this step is load_data reading the sheet, and get_all_values returned
sheet_read ==
    load_data_resume /\ \E i \in 1..Len(api_calls') : api_calls'[i] = GET_OK

\* load_data reported the empty source and kept the store
empty_source_error ==
    /\ dialogs' # <<>>
    /\ dialogs'[Len(dialogs')] = "Data Error"
    /\ headers' = headers
    /\ original_data' = original_data

(***************************************************************************)
(* C13: load fails with the empty-source error and does not replace the    *)
(* stored headers and records whenever the source returns zero data rows:  *)
(* no rows at all, or the header row alone.                                *)
(***************************************************************************)
C13_NoDataRowsIsError ==
    [][(sheet_read /\ Len(sheet) <= 1) => empty_source_error]_vars

\* the part of C13 that holds in the desktop client: a sheet without any row
C13_NoRowsIsError ==
    [][(sheet_read /\ sheet = <<>>) => empty_source_error]_vars

\* the web variant: no data rows, "No data found."
C13_WebNoData ==
    (pc = "main" /\ Tail(sheet) = <<>>) => web_view.kind = "No data found."

\* the desktop client loaded a header-only sheet over an empty store, without
\* any message
C13_HeaderOnlyLoaded ==
    /\ Len(sheet) = 1
    /\ headers = sheet[1]
    /\ original_data = <<>>
    /\ api_calls = <<GET_OK>>
    /\ dialogs = <<>>
    /\ steps > 0

\* a Refresh of an entirely empty sheet
C13_EmptyRefreshed ==
    /\ sheet = <<>>
    /\ steps > 0
    /\ api_calls = <<GET_OK>>
    /\ dialogs = <<"Data Error">>


(***************************************************************************)
(* C14: a successful load replaces the store wholesale: afterwards headers *)
(* is the first row of the source and original_data is exactly the         *)
(* remaining rows, in source order, with nothing kept from the load before.*)
(***************************************************************************)
C14_LoadReplacesStore ==
    [][(sheet_read /\ sheet # <<>>) =>
          (headers' = sheet[1] /\ original_data' = Tail(sheet))]_vars

\* a reload after an append: the store holds the rows of the sheet, the new
\* one included, and differs from the store of the load before
C14_Witness ==
    /\ sheet # <<>>
    /\ \E i \in 1..Len(api_calls) : api_calls[i].op = "append_row" /\ api_calls[i].ok
    /\ \E i \in 1..Len(api_calls) : api_calls[i] = GET_OK
    /\ headers = sheet[1]
    /\ original_data = Tail(sheet)
    /\ Len(original_data) >= 2


(***************************************************************************)
(* Criteria on fields the sheet does not have.                             *)
(***************************************************************************)

\* the field names of the active criteria of a criteria set
active_fields(crit) ==
    {f[2] : f \in {g \in TEXT_FILTERS : text_active(crit[g[1]])}}
    \cup (IF crit.loc # {} THEN {H_LOCATION} ELSE {})
    \cup (IF crit.age \notin {ALL, EMPTY} THEN {H_AGE} ELSE {})

\* some active criterion names a field that is no header, compared exactly
unknown_field(hdrs, crit) ==
    \E f \in active_fields(crit) : \A i \in 1..Len(hdrs) : hdrs[i] # f

(***************************************************************************)
(* C15: applying the filter with an active criterion whose field name is   *)
(* not exactly (case-sensitively) a header fails with the unknown-field    *)
(* error (list.index raises) instead of returning a result, and the rows   *)
(* shown are not replaced; with every field present it returns a result.   *)
(***************************************************************************)
C15_UnknownFieldFails ==
    [][filter_data =>
          IF unknown_field(headers, Criteria)
          THEN ~alive' /\ table' = table /\ current_selected_row' = current_selected_row
          ELSE alive']_vars

\* the filter failed on a header that differs from the field name by case
C15_Witness ==
    /\ pc = "filter_data"
    /\ ~alive
    /\ headers = HEADERS_CASE
    /\ location_checked # {}
    /\ active_count(Criteria) = 1
    /\ table # <<>>

\* the filter failed on a column the sheet lacks
C15_WitnessMissing ==
    /\ pc = "filter_data"
    /\ ~alive
    /\ headers = HEADERS_NOLANG
    /\ active_fields(Criteria) = {H_LANGUAGES}


(***************************************************************************)
(* The filter as a function of the store and the criteria.                 *)
(***************************************************************************)

\* this step is a change of one filter widget, whose signal runs filter_data
filter_step ==
    \/ toggle_location
    \/ edit_name_search
    \/ edit_role_search
    \/ edit_days_search
    \/ edit_specialty_search
    \/ edit_languages_search
    \/ select_age

(***************************************************************************)
(* C16: applying the filter leaves the stored records, the stored headers  *)
(* and the criteria (the widgets and the choices of the age box) as they   *)
(* are, calls nothing on the sheet, and its result is a function of        *)
(* (records, headers, criteria) alone: whatever was shown or selected      *)
(* before, the same inputs give the same rows.                             *)
(***************************************************************************)
C16_FilterIsPure ==
    [][filter_step =>
          /\ headers' = headers
          /\ original_data' = original_data
          /\ sheet' = sheet
          /\ age_items' = age_items
          /\ api_calls' = <<>>
          /\ UNCHANGED <<network, settings, suspended>>
          /\ alive' => table' = satisfying(original_data, headers, Criteria')]_vars

\* a filter is set for the third time or later and shows a proper part of the
\* store
C16_Witness ==
    /\ steps >= 3
    /\ alive
    /\ dialogs = <<>>
    /\ api_calls = <<>>
    /\ filters_set(Criteria) = 1
    /\ table # <<>>
    /\ Len(table) < Len(original_data)
    /\ table = satisfying(original_data, headers, Criteria)


(***************************************************************************)
(* Which Photo cells are fetched.                                          *)
(***************************************************************************)

\* the text, blanks around it apart, begins with the scheme http or https
http_url(text) ==
    startswith(lower(strip(text)), HTTP) \/ startswith(lower(strip(text)), HTTPS)

\* the desktop client shows "No Photo" and has asked the network for nothing
desktop_no_photo ==
    photo_label = NO_PHOTO /\ photo_requests = {} /\ inflight = EmptyBag

\* a record is selected in the desktop client; its Photo cell
desktop_selected == pc = "start" /\ current_selected_row # -1

\* the desktop half of C17
C17_DesktopFetchesOnlyUrls ==
    (desktop_selected /\ ~http_url(selected_photo_url)) => desktop_no_photo

\* the web half of C17
C17_WebFetchesOnlyUrls ==
    (pc = "details" /\ ~http_url(row_get(sheet[1], web_view.rows[1], H_PHOTO)))
        => web_view.photo.shown = "No Photo"

(***************************************************************************)
(* C17: in the desktop client and in the web variant a photo is fetched    *)
(* only when the Photo cell is a URL with the scheme http or https; for    *)
(* every other value (empty, another scheme, other text) "No Photo" is     *)
(* shown and nothing is requested.                                         *)
(***************************************************************************)
C17_FetchOnlyHttpUrls == C17_DesktopFetchesOnlyUrls /\ C17_WebFetchesOnlyUrls

\* the desktop client selected a record whose Photo cell has another scheme
C17_DesktopOtherScheme ==
    /\ desktop_selected
    /\ selected_photo_url # EMPTY
    /\ ~http_url(selected_photo_url)
    /\ desktop_no_photo

\* the web variant handed a Photo cell that is no URL to st.image
C17_WebShowsPath ==
    /\ pc = "details"
    /\ web_view.photo.shown = "st.image"
    /\ ~http_url(web_view.photo.url)

(***************************************************************************)
(* The revision counter and the write-backs.                               *)
(***************************************************************************)

\* the handler of a successful write (SHEET.update or SHEET.append_row
\* returned) comes back from its reload and the application goes on
write_back_done(callers) ==
    /\ load_data_resume
    /\ top.caller \in callers
    /\ alive'

\* the counter never decreases, grows by one when a write-back of one of the
\* callers is done, and changes at no other step
revision_counts(callers) ==
    /\ version_rev' >= version_rev
    /\ settings_file' >= settings_file
    /\ write_back_done(callers) => version_rev' = version_rev + 1
    /\ version_rev' # version_rev => write_back_done(callers)

\* the part of C18 about updates: the counter never decreases, a successful
\* update of a row adds one to it, and nothing but a successful update changes it
C18_UpdateCounts == [][revision_counts({"update_data"})]_vars

(***************************************************************************)
(* C18: the revision counter never decreases, is incremented by one on     *)
(* every successful write-back, a successful update of a row and a         *)
(* successful append of a row alike, and is not incremented by a failed or *)
(* cancelled write.                                                        *)
(***************************************************************************)
C18_RevisionCounts == [][revision_counts({"update_data", "add_new_staff"})]_vars

\* a row was appended and reloaded, and the counter is where it started
C18_AppendNotCounted ==
    /\ suspended = <<>>
    /\ alive
    /\ \E i \in DOMAIN api_calls : api_calls[i].op = "append_row" /\ api_calls[i].ok
    /\ original_data # <<>>
    /\ version_rev = 14

\* a row was updated and reloaded, and the counter has grown
C18_UpdateCounted ==
    /\ suspended = <<>>
    /\ alive
    /\ \E i \in DOMAIN api_calls : api_calls[i].op = "update" /\ api_calls[i].ok
    /\ version_rev = 15

(***************************************************************************)
(* The row a confirmed New Staff dialog appends.                           *)
(***************************************************************************)

\* add_new_staff has called SHEET.append_row and the call returned
append_succeeds ==
    /\ add_new_staff_resume
    /\ Len(api_calls') = 1
    /\ api_calls'[1].op = "append_row"
    /\ api_calls'[1].ok

\* the row holds, header by header and in header order, what was entered for
\* the header in the dialog
entered_row(row) ==
    /\ Len(row) = Len(headers)
    /\ \E staff \in NEW_STAFF :
          \A i \in DOMAIN headers :
              row[i] = IF headers[i] \in DOMAIN staff THEN staff[headers[i]] ELSE EMPTY

\* the rows of the sheet whose name cell is `name`
rows_named(sh, name) ==
    {r \in 2..Len(sh) : index(sh[1], H_NAME) # 0 /\ sh[r][index(sh[1], H_NAME)] = name}

(***************************************************************************)
(* C20: a confirmed append of the New Staff dialog (opened on a loaded     *)
(* header list, so that it has fields) adds exactly one row to the sheet,  *)
(* below the rows it had; the row holds exactly one value per header, in   *)
(* header order; no row of the same name stands in its way.                *)
(***************************************************************************)
C20_AppendsOneRow ==
    [][(append_succeeds /\ top.new_data # <<>>) =>
          /\ entered_row(api_calls'[1].values)
          /\ sheet' = sheet \o <<api_calls'[1].values>>]_vars

\* a row was appended although the sheet already had a row of that name
C20_DuplicateAppended ==
    /\ api_calls # <<>>
    /\ api_calls[1].op = "append_row"
    /\ api_calls[1].ok
    /\ headers # <<>>
    /\ sheet[Len(sheet)] = api_calls[1].values
    /\ Cardinality(rows_named(sheet, sheet[Len(sheet)][index(sheet[1], H_NAME)])) >= 2

(***************************************************************************)
(* Start-up and later use with a missing or damaged settings file.         *)
(***************************************************************************)

\* start-up is over and no event has been handled yet
just_started == pc = "app" /\ steps = 0

\* the settings the client runs with are the built-in defaults
runs_with_defaults ==
    /\ clinician_font = DEFAULT_FONT
    /\ clinician_font_size = DEFAULT_SIZE
    /\ current_theme = DEFAULT_THEME
    /\ version_rev = DEFAULT_REV.v

\* the file is absent, cannot be read, or is no JSON text
no_document == settings_doc.kind \in {"absent", "unreadable", "invalid"}

\* the file holds a JSON document that is no object
non_object == settings_doc.kind \in NON_OBJECTS

\* the file is an object whose theme is no key of THEMES
unknown_theme ==
    /\ settings_doc.kind = "object"
    /\ settings_doc.theme # ABSENT
    /\ settings_doc.theme.v \notin THEME_NAMES

\* the file is an object whose revision is no integer
non_integer_revision ==
    /\ settings_doc.kind = "object"
    /\ settings_doc.version_rev \notin {ABSENT} \cup {INT(n) : n \in 0..30}

\* the client has not started yet, or runs with the theme start-up gave it
theme_of_start_up ==
    \/ pc = "boot"
    \/ current_theme = settings_get(load_settings(settings_doc).settings, "theme", DEFAULT_THEME)

\* with no document, start-up succeeds and leaves the defaults in effect, and
\* the later use of the settings succeeds as long as the theme is that default
C19_NoDocumentIsDefaults ==
    no_document => (theme_of_start_up => alive) /\ (just_started => runs_with_defaults)

\* an object with a revision that is no integer starts with revision 14 and
\* does not fail on account of the revision
C19_NonIntegerRevisionIs14 ==
    non_integer_revision => (pc = "app" => version_rev = DEFAULT_REV.v) /\ (pc = "boot" => alive)

(***************************************************************************)
(* C19: loading the settings never fails the application: with the file    *)
(* absent, unreadable, no valid JSON, or holding a non-object document, an *)
(* unknown theme name or a non-integer revision, start-up and the later    *)
(* use of the settings go on with the defaults (font Roboto, size 12,      *)
(* theme Green, revision 14).                                              *)
(***************************************************************************)
C19_SettingsNeverFail ==
    /\ (no_document \/ non_object \/ unknown_theme \/ non_integer_revision) => (theme_of_start_up => alive)
    /\ (no_document \/ non_object) => (pc = "boot" \/ (just_started => runs_with_defaults))
    /\ unknown_theme => (just_started => stylesheet.colors = DEFAULT_THEME.v)
    /\ non_integer_revision => (just_started => version_rev = DEFAULT_REV.v)

\* start-up failed on a settings file that holds no object
C19_StartFailed == pc = "boot" /\ ~alive /\ non_object

\* the Settings dialog ended the client that started with an unknown theme
C19_DialogFailed == pc = "app" /\ ~alive /\ unknown_theme /\ stylesheet.colors = "Green"

\* the client started with the defaults although the file is no JSON text
C19_StartedOnDefaults == just_started /\ settings_doc.kind = "invalid" /\ runs_with_defaults /\ suspended = <<>>

(***************************************************************************)
(* The shape of the stored records.                                        *)
(***************************************************************************)

\* every stored record has one value per stored header
records_aligned == \A i \in DOMAIN original_data : Len(original_data[i]) = Len(headers)

\* with a source whose rows are all as long as its header row, the stored
\* records stay aligned through loads, updates and appends
C21_AlignedOnRectangularSource == pc = "app" => records_aligned

(***************************************************************************)
(* C21: in every state reached by loads, every stored record has exactly   *)
(* as many values as there are stored headers, value i under header i,     *)
(* also when the source returns rows of differing lengths.                 *)
(***************************************************************************)
C21_RecordsAligned ==
    /\ records_aligned
    /\ \A i \in DOMAIN original_data : \A j \in DOMAIN original_data[i] :
          original_data[i][j] = sheet[i + 1][j]

\* a load stored a record that is shorter than the header row
C21_ShortRecordStored ==
    /\ suspended = <<>>
    /\ headers # <<>>
    /\ \E i \in DOMAIN original_data : Len(original_data[i]) < Len(headers)
    /\ dialogs = <<>>

(***************************************************************************)
(* What a change of a filter widget shows.                                 *)
(***************************************************************************)

(***************************************************************************)
(* C22: every change of a filter criterion (a location check box, one of   *)
(* the five text filters, the age box) runs the filter over the whole      *)
(* record store, not over the rows shown before, and the rows it yields    *)
(* replace the rows shown (the selection and the detail panel are reset).  *)
(***************************************************************************)
C22_ChangeRefilters ==
    [][(filter_step /\ alive') =>
          /\ table' = filter_rows(original_data, headers, Criteria')
          /\ current_selected_row' = -1
          /\ update_enabled' = FALSE
          /\ photo_label' = NO_PHOTO]_vars

\* a second location was checked, and the table shows a record the first
\* location had excluded
C22_Witness ==
    /\ alive
    /\ api_calls = <<>>
    /\ dialogs = <<>>
    /\ headers = HEADERS_STD
    /\ location_checked = {NPD, CDC}
    /\ original_data = <<Row(ANN, HEADERS_STD), Row(BEN, HEADERS_STD)>>
    /\ table = original_data

(***************************************************************************)
(* The password in front of the append.                                    *)
(***************************************************************************)

\* the step leaves a confirmed save waiting for its write
save_pending_after == suspended' # suspended

\* the step calls SHEET.append_row
append_called ==
    api_calls' # api_calls /\ Len(api_calls') = 1 /\ api_calls'[1].op = "append_row"

(***************************************************************************)
(* C23: a row is appended only as the continuation of an Add New Staff     *)
(* whose prompt was answered with OK and the configured password and whose *)
(* dialog was then saved and confirmed; a cancelled prompt, a wrong        *)
(* password, a closed dialog and a declined confirmation each end without  *)
(* a call on the sheet, a change of the sheet or the store, or a reload.   *)
(***************************************************************************)
C23_AppendIsGated ==
    [][/\ append_called =>
             /\ suspended # <<>>
             /\ top.at = "add_new_staff"
             /\ top.shown = <<"Password Required", "Confirm Save">>
       /\ (add_new_staff /\ save_pending_after) =>
             /\ password_entered'.ok
             /\ password_entered'.text = PASSWORD
             /\ dialogs' = <<"Password Required", "Confirm Save">>
       /\ (add_new_staff /\ (~password_entered'.ok \/ password_entered'.text # PASSWORD)) =>
             ~save_pending_after
       /\ (add_new_staff /\ ~save_pending_after) =>
             /\ api_calls' = <<>>
             /\ sheet' = sheet
             /\ store' = store
             /\ table' = table]_vars

\* a row was appended after the configured password was entered
C23_Witness ==
    /\ password_entered = [ok |-> TRUE, text |-> PASSWORD]
    /\ calls_of(api_calls, "append_row") # {}
    /\ \E i \in DOMAIN api_calls : api_calls[i].op = "append_row" /\ api_calls[i].ok
    /\ Len(sheet) >= 2
    /\ sheet[Len(sheet)] = Row(BEN, headers)

\* a wrong password was refused and nothing was written
C23_WitnessDenied ==
    /\ password_entered.ok
    /\ password_entered.text # PASSWORD
    /\ dialogs = <<"Password Required", "Access Denied">>
    /\ api_calls = <<>>

(***************************************************************************)
(* The table against the filter of the store, between handlers.            *)
(***************************************************************************)

\* no handler is running or stopped in processEvents, and the client goes on
quiescent == pc = "app" /\ alive /\ suspended = <<>>

\* every row of the table is a record of the store: no cell was edited since
\* the table was last filled
table_unedited == \A i \in DOMAIN table : \E j \in DOMAIN original_data : original_data[j] = table[i]

\* the table is the filter of the store under the criteria of the widgets
table_is_filtered ==
    ~filter_raises(headers, Criteria) => table = filter_rows(original_data, headers, Criteria)

(***************************************************************************)
(* C24: in every quiescent state of the desktop client, after any sequence *)
(* of filter changes, clear-filters, refreshes, updates and appends, the    *)
(* table equals the filter of the current store under the current          *)
(* criteria; a reload with a location or text filter still set does not    *)
(* show records the filter excludes.                                       *)
(***************************************************************************)
C24_TableIsFilteredStore ==
    (quiescent /\ table_unedited /\ headers # <<>>) => table_is_filtered

\* the part that holds: with every filter clear the unedited table is the store
C24_NoFilterShowsStore ==
    (quiescent /\ table_unedited /\ headers # <<>> /\ filters_set(Criteria) = 0) => table = original_data

\* after a reload the table shows a record that the location filter excludes
C24_ReloadShowsExcluded ==
    /\ quiescent
    /\ location_checked # {}
    /\ api_calls # <<>>
    /\ api_calls[Len(api_calls)] = GET_OK
    /\ table = original_data
    /\ Len(filter_rows(original_data, headers, Criteria)) < Len(original_data)

(***************************************************************************)
(* The row an update is aimed at.                                          *)
(***************************************************************************)

\* update_data was confirmed with Yes: the step leaves it waiting for its write
update_aimed == update_data /\ suspended' # suspended

\* the sheet row the confirmed update will write
aimed_row == suspended'[Len(suspended')].idx

\* no two records of the last load have the same name
names_unique ==
    \A i, j \in DOMAIN original_data :
        original_data[i][index(headers, H_NAME)] = original_data[j][index(headers, H_NAME)] => i = j

(***************************************************************************)
(* C25: an update issued from a selected row of the table is aimed at the  *)
(* sheet row of the selected record and at no other record's row, also     *)
(* when several records of the last load have the same "Clinicians Name".  *)
(***************************************************************************)
C25_UpdateAimsAtSelected ==
    [][(update_aimed /\ table_unedited) =>
          original_data[aimed_row - 1] = table[current_selected_row + 1]]_vars

\* the part that holds: with names that are unique in the last load the
\* update is aimed at the selected record's row
C25_UniqueNamesAimAtSelected ==
    [][(update_aimed /\ table_unedited /\ names_unique) =>
          original_data[aimed_row - 1] = table[current_selected_row + 1]]_vars

\* the second of two records of one name was selected and updated, and the
\* row of the first was overwritten with it
C25_TwinOverwritten ==
    /\ Len(sheet) = 3
    /\ sheet[2] = Row(BEN_TWIN, sheet[1])
    /\ sheet[3] = Row(BEN_TWIN, sheet[1])
    /\ calls_of(api_calls, "update") # {}

(***************************************************************************)
(* An update after another writer moved the rows.                          *)
(***************************************************************************)

\* the step writes a row of the sheet that was there before
row_overwritten ==
    /\ update_data_resume
    /\ sheet' # sheet
    /\ top.idx <= Len(sheet)

\* the name in sheet row r
name_in_sheet(r) == sheet[r][index(sheet[1], H_NAME)]

\* the name of the record the update was aimed at when it was confirmed
name_aimed_at == original_data[top.idx - 1][index(headers, H_NAME)]

\* the sheet is as this client last loaded it
sheet_as_loaded == sheet = <<headers>> \o original_data

(***************************************************************************)
(* C26: when another writer inserted, deleted or reordered rows of the     *)
(* sheet between this client's last load and its update, the update never  *)
(* overwrites a sheet row whose name differs from the name of the record   *)
(* being updated.                                                          *)
(***************************************************************************)
C26_NeverOverwritesOtherName ==
    [][row_overwritten => name_in_sheet(top.idx) = name_aimed_at]_vars

\* the part that holds: on a sheet that is as it was loaded, the overwritten
\* row has the name of the record being updated
C26_UnmovedSheetSameName ==
    [][(row_overwritten /\ sheet_as_loaded) => name_in_sheet(top.idx) = name_aimed_at]_vars

\* after an insert by the other writer, the update of "Dr. Smith" replaced
\* the inserted record
C26_OtherRecordOverwritten ==
    /\ calls_of(api_calls, "update") # {}
    /\ headers = HEADERS_STD
    /\ original_data = <<Row(SMITH, HEADERS_STD)>>
    /\ sheet = <<HEADERS_STD, Row(SMITH, HEADERS_STD), Row(SMITH, HEADERS_STD)>>

(***************************************************************************)
(* The photo when no record is selected.                                   *)
(***************************************************************************)

\* no row of the table is selected
nothing_selected == pc = "app" /\ current_selected_row = -1

(***************************************************************************)
(* C27: whenever no record is selected (a filter change, Clear Filter or a *)
(* reload cleared the selection), the photo display shows no image, and it *)
(* stays so when a fetch that was in flight at the deselection completes.  *)
(***************************************************************************)
C27_NoImageWithoutSelection == nothing_selected => photo_label.pixmap = EMPTY

\* the part that holds: the step that clears the selection leaves "No Photo"
C27_DeselectionClearsPhoto ==
    [][(current_selected_row # -1 /\ current_selected_row' = -1) => photo_label' = NO_PHOTO]_vars

\* the image of a record is shown although the selection was cleared before
\* its fetch completed
C27_ImageAfterDeselection ==
    /\ nothing_selected
    /\ alive
    /\ photo_label.pixmap # EMPTY
    /\ inflight = EmptyBag

(***************************************************************************)
(* The cells an update carries over.                                       *)
(***************************************************************************)

\* update_data has written its row: SHEET.update returned
update_written ==
    /\ update_data_resume
    /\ Len(api_calls') = 1
    /\ api_calls'[1].op = "update"
    /\ api_calls'[1].ok

\* the columns update_data does not take from the detail panel
CARRIED_OVER == {H_PHOTO, H_LANGUAGES}

\* the written values have, in the carried-over columns, what the record of
\* the written row had in the last load
carried_over_kept ==
    \A i \in DOMAIN headers :
        headers[i] \in CARRIED_OVER => api_calls'[1].values[i] = original_data[top.idx - 1][i]

(***************************************************************************)
(* C28: a successful update leaves the "Photo" and "Languages Spoken"      *)
(* values of the written row equal to the values that record had in the    *)
(* last load, whatever was typed in the detail fields; only the editable   *)
(* fields and "Specialty Areas" can change.                                *)
(***************************************************************************)
C28_PhotoAndLanguagesKept == [][update_written => carried_over_kept]_vars

\* the part that holds: when the selected table row still is the record the
\* update was aimed at, the two values are kept whatever the detail fields hold
C28_KeptForUntouchedRow ==
    [][(update_written /\ table[current_selected_row + 1] = original_data[top.idx - 1])
          => carried_over_kept]_vars

\* an update wrote a "Languages Spoken" value that was typed into the table
C28_TypedLanguagesWritten ==
    /\ calls_of(api_calls, "update") # {}
    /\ api_calls[1].ok
    /\ index(headers, H_LANGUAGES) # 0
    /\ api_calls[1].values[index(headers, H_LANGUAGES)] \in CELL_TEXTS
    /\ suspended # <<>>
    /\ original_data[top.idx - 1][index(headers, H_LANGUAGES)] \notin CELL_TEXTS

(***************************************************************************)
(* The desktop filter against the web variant's filter.                    *)
(***************************************************************************)

\* the web variant ran its filter, and the desktop filter does not raise on
\* the same records and criteria
both_filtered ==
    /\ pc = "main"
    /\ web_view.kind \in {"Staff List", "No matching staff found."}
    /\ ~filter_raises(headers, Criteria)

\* the queries are as the desktop filter uses them (no blanks around them, no
\* "." or "|"), and no Location differs from a selected choice in case only
plain_input ==
    /\ \A k \in {"name", "role", "days", "specialty", "languages"} :
          /\ Criteria[k] = strip(Criteria[k])
          /\ \A i \in DOMAIN Criteria[k] : Criteria[k][i] \notin {".", "|"}
    /\ \A i \in DOMAIN original_data : \A loc \in location_checked :
          contains(lower(loc), lower(field(original_data[i], headers, H_LOCATION)))
              => contains(loc, field(original_data[i], headers, H_LOCATION))

(***************************************************************************)
(* C29: for the same records and the same criteria with at least one       *)
(* active filter, the desktop filter and the web variant's filter select   *)
(* the same records in the same order, also for location choices that      *)
(* differ from the field in letter case, for queries with blanks around    *)
(* them and for queries with regular-expression metacharacters.            *)
(***************************************************************************)
C29_SameSelection ==
    both_filtered => web_view.rows = filter_rows(original_data, headers, Criteria)

\* the part that holds: the two filters agree on plain input
C29_SameOnPlainInput ==
    (both_filtered /\ plain_input) => web_view.rows = filter_rows(original_data, headers, Criteria)

\* the web variant lists a record whose Location is "npd" for the choice NPD,
\* which the desktop filter excludes
C29_CaseDiffers ==
    /\ both_filtered
    /\ location_checked = {NPD}
    /\ Len(web_view.rows) > Len(filter_rows(original_data, headers, Criteria))

\* the web variant finds nothing for a query with blanks around it, for which
\* the desktop filter finds a record
C29_BlanksDiffer ==
    /\ both_filtered
    /\ location_checked = {}
    /\ name_search # strip(name_search)
    /\ web_view.rows = <<>>
    /\ filter_rows(original_data, headers, Criteria) # <<>>

(***************************************************************************)
(* What the web variant puts on the page.                                  *)
(***************************************************************************)

\* the web variant has run; the table it handed to st.dataframe
web_ran == pc \in {"main", "details"}

\* a text query with a character other than a blank
not_blank(query) == \E i \in DOMAIN query : query[i] # " "

\* a location is selected, a text query is not blank, or an age group other
\* than "All" is selected
some_filter_active ==
    \/ location_checked # {}
    \/ age_current # ALL
    \/ \E query \in {name_search, role_search, days_search, specialty_search, languages_search} :
          not_blank(query)

(***************************************************************************)
(* C30: the web variant shows no staff row unless a filter is active (a    *)
(* location selected, a text query that is not blank, or an age group      *)
(* other than "All"), and the staff table it shows never has the columns   *)
(* "Photo", "Contact Number" or "Contact (Extn)".                          *)
(***************************************************************************)
C30_WebShowsFilteredSafeTable ==
    web_ran =>
        /\ (web_view.rows # <<>> \/ web_view.table.rows # <<>>) => some_filter_active
        /\ \A k \in DOMAIN web_view.table.columns : web_view.table.columns[k] \notin SENSITIVE_COLS
        /\ \A i \in DOMAIN web_view.table.rows : Len(web_view.table.rows[i]) = Len(web_view.table.columns)
        /\ web_view.kind = "Staff List" =>
              /\ Len(web_view.table.rows) = Len(web_view.rows)
              /\ \A j \in DOMAIN sheet[1] : sheet[1][j] \notin SENSITIVE_COLS =>
                    \E k \in DOMAIN web_view.table.columns :
                        /\ web_view.table.columns[k] = sheet[1][j]
                        /\ \A i \in DOMAIN web_view.rows : web_view.table.rows[i][k] = web_view.rows[i][j]

\* a staff list is shown for a sheet with the photo and the contact columns,
\* without these three columns
C30_Witness ==
    /\ pc = "main"
    /\ headers = HEADERS_CONTACT
    /\ web_view.kind = "Staff List"
    /\ web_view.table.rows # <<>>
    /\ Len(web_view.table.columns) = Len(HEADERS_CONTACT) - 3

\* a staff list is shown because an age group other than "All" is selected
C30_WitnessAgeGroup ==
    /\ pc = "main"
    /\ age_current # ALL
    /\ name_search = EMPTY
    /\ location_checked = {}
    /\ web_view.table.rows # <<>>

\* with a name query of blanks only, the web variant shows the hint and no row
C30_WitnessBlankQuery ==
    /\ pc = "main"
    /\ name_search # EMPTY
    /\ original_data # <<>>
    /\ web_view.kind = "info"
    /\ web_view.table = NO_TABLE

=============================================================================
